---------------------------- MODULE Spec2Model ----------------------------
(***************************************************************************)
(* metals-scanner: the quota / burst rate limiter (app/rate_limiter.py,    *)
(* app/database.py) and the market-hours price cache (app/price_cache.py). *)
(*                                                                         *)
(* Time.  One wall clock, `now`, read by the code as datetime.utcnow(),    *)
(* datetime.now(tz) and time.time().  A datetime is the record             *)
(* [year, month, day, tick]; `tick` counts units of 100 ms since midnight  *)
(* and so stands for the hour, minute, second and microsecond fields       *)
(* together.  time.time() is the same clock counted in ticks from          *)
(* EpochYear-01-01 (only differences of time.time() and its truthiness are *)
(* used by the code).                                                      *)
(*                                                                         *)
(* Python's None is the empty tuple <<>>, a present value v is <<v>>.      *)
(***************************************************************************)
EXTENDS Integers, Sequences, FiniteSets, TLC

VARIABLES
    now,                 \* the wall clock (a datetime)
    tables_created,      \* Base.metadata.create_all has run (init_db)
    rate_limit_tracker,  \* table rate_limit_tracker: sequence of rows, in id order
    last_call_time,      \* RateLimiter.last_call_time: api_name -> None | time.time()
    spot_prices,         \* table spot_prices: sequence of rows, in id order
    api_call_logs,       \* table api_call_logs: sequence of rows, in id order
    listings,            \* table listings: sequence of rows, in id order
    period,              \* history: per api_name, the calls granted/rejected since its last rollover
    granted_at,          \* history: per api_name, time.time() when its last granted call returned
    result,              \* what the last operation returned or raised
    callers              \* the threads inside check_and_increment: position and session

vars ==
    <<now, tables_created, rate_limit_tracker, last_call_time, spot_prices,
      api_call_logs, listings, period, granted_at, result, callers>>

-----------------------------------------------------------------------------
(* Bounds of the model *)

\* settings.EBAY_DAILY_LIMIT and settings.METALS_API_MONTHLY_LIMIT, scaled down
\* (defaults 5000 and 50, app/config.py:27-28): any positive value is a legal setting
EBAY_DAILY_LIMIT == 2
METALS_API_MONTHLY_LIMIT == 2
\* the clock runs over StartClock + d days + f ticks, d <= MaxDays, f <= MaxFine
MaxDays == 2
MaxFine == 2
\* the cache's clock runs over CacheStartClock + b blocks + q quarters + f ticks,
\* b <= MaxBlocks, q <= MaxQuarters, f <= MaxTicks; spot_prices holds at most MaxRows rows
MaxBlocks == 2
MaxQuarters == 2
MaxTicks == 1
MaxRows == 2
\* settings.API_RETRY_ATTEMPTS (default 3, app/config.py:37): any positive value is a legal
\* setting; a request starts while api_call_logs holds fewer than MaxLogs rows
API_RETRY_ATTEMPTS == 4
MaxLogs == 1
\* titles of at most MaxWords words; responses of at most MaxItems items
MaxWords == 4
MaxItems == 2

-----------------------------------------------------------------------------
(* Python values *)

None == <<>>
Some(v) == <<v>>
Val(o) == o[1]

\* truth value of an Optional[int]: None and 0 are false
Truthy(o) == o # None /\ Val(o) # 0

\* a or b, for Optional[int]
PyOr(a, b) == IF Truthy(a) THEN a ELSE b

-----------------------------------------------------------------------------
(* datetime, timedelta, time.time() *)

TicksPerSecond == 10
TicksPerMinute == 60 * TicksPerSecond
TicksPerHour == 60 * TicksPerMinute
TicksPerDay == 24 * TicksPerHour
EpochYear == 2024

DT(y, m, d, t) == [year |-> y, month |-> m, day |-> d, tick |-> t]

IsLeap(y) == (y % 4 = 0 /\ y % 100 # 0) \/ y % 400 = 0

DaysInMonth(y, m) ==
    IF m = 2 THEN (IF IsLeap(y) THEN 29 ELSE 28)
    ELSE IF m \in {4, 6, 9, 11} THEN 30 ELSE 31

\* a < b and a <= b on datetimes
DtLT(a, b) ==
    \/ a.year < b.year
    \/ a.year = b.year /\ a.month < b.month
    \/ a.year = b.year /\ a.month = b.month /\ a.day < b.day
    \/ a.year = b.year /\ a.month = b.month /\ a.day = b.day /\ a.tick < b.tick

DtLE(a, b) == a = b \/ DtLT(a, b)

\* dt + timedelta(days=1)
NextDay(dt) ==
    IF dt.day < DaysInMonth(dt.year, dt.month) THEN [dt EXCEPT !.day = dt.day + 1]
    ELSE IF dt.month < 12 THEN [dt EXCEPT !.month = dt.month + 1, !.day = 1]
    ELSE [dt EXCEPT !.year = dt.year + 1, !.month = 1, !.day = 1]

RECURSIVE AddDays(_, _)
AddDays(dt, n) == IF n = 0 THEN dt ELSE AddDays(NextDay(dt), n - 1)

\* the clock n ticks later
AddTicks(dt, n) ==
    AddDays([dt EXCEPT !.tick = (dt.tick + n) % TicksPerDay], (dt.tick + n) \div TicksPerDay)

RECURSIVE DaysBeforeYear(_)
DaysBeforeYear(y) ==
    IF y <= EpochYear THEN 0
    ELSE DaysBeforeYear(y - 1) + (IF IsLeap(y - 1) THEN 366 ELSE 365)

RECURSIVE DaysBeforeMonth(_, _)
DaysBeforeMonth(y, m) ==
    IF m <= 1 THEN 0 ELSE DaysBeforeMonth(y, m - 1) + DaysInMonth(y, m - 1)

\* days since EpochYear-01-01
Ordinal(dt) == DaysBeforeYear(dt.year) + DaysBeforeMonth(dt.year, dt.month) + dt.day - 1

\* time.time() at clock reading dt, in ticks
TimeTime(dt) == Ordinal(dt) * TicksPerDay + dt.tick

\* dt.replace(hour=0, minute=0, second=0): the microsecond field is kept
ReplaceHMS0(dt) == [dt EXCEPT !.tick = dt.tick % TicksPerSecond]

\* dt - timedelta(days=1)
PrevDay(dt) ==
    IF dt.day > 1 THEN [dt EXCEPT !.day = dt.day - 1]
    ELSE IF dt.month > 1
    THEN [dt EXCEPT !.month = dt.month - 1, !.day = DaysInMonth(dt.year, dt.month - 1)]
    ELSE [dt EXCEPT !.year = dt.year - 1, !.month = 12, !.day = 31]

\* the clock n ticks earlier, n at most a day
SubTicks(dt, n) ==
    IF dt.tick >= n THEN [dt EXCEPT !.tick = dt.tick - n]
    ELSE [PrevDay(dt) EXCEPT !.tick = dt.tick + TicksPerDay - n]

\* dt.weekday(): Monday is 0, Sunday is 6 (EpochYear-01-01 is a Monday)
Weekday(dt) == Ordinal(dt) % 7

\* b - a in ticks
TicksBetween(a, b) == TimeTime(b) - TimeTime(a)

\* int(x / y) for integers: Python's int() truncates toward zero
TruncDiv(x, y) == IF x >= 0 THEN x \div y ELSE -((-x) \div y)

\* pytz US/Eastern: daylight time runs from the second Sunday of March, 07:00 UTC,
\* to the first Sunday of November, 06:00 UTC
SundayIn(y, m, first, last) ==
    CHOOSE d \in first..last : Weekday(DT(y, m, d, 0)) = 6

IsDaylightTime(utc) ==
    /\ DtLE(DT(utc.year, 3, SundayIn(utc.year, 3, 8, 14), 7 * TicksPerHour), utc)
    /\ DtLT(utc, DT(utc.year, 11, SundayIn(utc.year, 11, 1, 7), 6 * TicksPerHour))

\* mutant: the cache reads the UTC clock as if it were the Eastern one
EasternTime_Utc(utc) == utc

\* datetime.now(pytz.timezone('US/Eastern')) when utcnow() is utc
EasternTime(utc) ==
    SubTicks(utc, (IF IsDaylightTime(utc) THEN 4 ELSE 5) * TicksPerHour)

-----------------------------------------------------------------------------
(* The clock of the model *)

\* the process starts on 2024-12-30 at 23:59:59.8 UTC (a Monday): the days that
\* follow hold a midnight, a month's end and a year's end
StartClock == DT(2024, 12, 30, TicksPerDay - 2)

\* ticks past a whole number of days since StartClock
FineOffset(dt) == (TimeTime(dt) - TimeTime(StartClock)) % TicksPerDay

InWindow(dt) ==
    /\ DtLE(StartClock, dt)
    /\ (TimeTime(dt) - TimeTime(StartClock)) \div TicksPerDay <= MaxDays
    /\ FineOffset(dt) <= MaxFine

\* time passes between two operations: 100 ms, or a day
Tick ==
    /\ \E n \in {1, TicksPerDay} :
        /\ InWindow(AddTicks(now, n))
        /\ now' = AddTicks(now, n)
    /\ UNCHANGED <<tables_created, rate_limit_tracker, last_call_time, spot_prices,
                   period, granted_at, result, api_call_logs, listings, callers>>

-----------------------------------------------------------------------------
(* app/database.py: RateLimitTracker and init_db *)

ApiNames == {"ebay", "metals-api", "other"}

\* RateLimitTracker(...) as stored: the calls_used columns default to 0
RateLimitTracker(api_name, daily_limit, monthly_limit, reset_at) ==
    [api_name |-> api_name,
     daily_limit |-> daily_limit,
     monthly_limit |-> monthly_limit,
     daily_calls_used |-> 0,
     monthly_calls_used |-> 0,
     reset_at |-> reset_at,
     last_call_at |-> None]

\* mutant: the query yields the first tracker whatever its api_name
FindTracker_First(table, api_name) == IF table # <<>> THEN 1 ELSE 0

\* db.query(RateLimitTracker).filter(api_name == a).first(): the row's index, 0 when none
FindTracker(table, api_name) ==
    IF \E i \in 1..Len(table) : table[i].api_name = api_name
    THEN CHOOSE i \in 1..Len(table) :
            /\ table[i].api_name = api_name
            /\ \A j \in 1..(i - 1) : table[j].api_name # api_name
    ELSE 0

\* the eBay tracker init_db creates
NewEbayTracker(at) ==
    RateLimitTracker("ebay", Some(EBAY_DAILY_LIMIT), None, ReplaceHMS0(at))

\* the metals-api tracker init_db creates
NewMetalsTracker(at) ==
    RateLimitTracker("metals-api", None, Some(METALS_API_MONTHLY_LIMIT),
                     [ReplaceHMS0(at) EXCEPT !.day = 1])

NoPeriod ==
    [granted |-> 0, rejected |-> FALSE, prev_rejected |-> FALSE, prev_reset_at |-> None]

\* no thread is inside check_and_increment
NoCallers == <<>>

NoResult ==
    [op |-> "none", api_name |-> "", outcome |-> "", tracked |-> FALSE,
     rolled |-> FALSE, slept |-> 0, err |-> None, status |-> None,
     fetch_calls |-> 0, fetched |-> None, value |-> None, prices |-> None,
     trace |-> <<>>, args |-> <<>>, terms |-> <<>>, calls |-> <<>>]

\* mutant: init_db creates the trackers anew on every run
InitDb_Recreates ==
    /\ tables_created' = TRUE
    /\ rate_limit_tracker' = <<NewEbayTracker(now), NewMetalsTracker(now)>>
    /\ result' = [NoResult EXCEPT !.op = "init_db"]
    /\ UNCHANGED <<now, last_call_time, spot_prices, period, granted_at, api_call_logs, listings, callers>>

InitDb ==
    LET t0 == rate_limit_tracker
        t1 == IF FindTracker(t0, "ebay") = 0 THEN Append(t0, NewEbayTracker(now)) ELSE t0
        t2 == IF FindTracker(t1, "metals-api") = 0
              THEN Append(t1, NewMetalsTracker(now)) ELSE t1
    IN  /\ tables_created' = TRUE
        /\ rate_limit_tracker' = t2
        /\ result' = [NoResult EXCEPT !.op = "init_db"]
        /\ UNCHANGED <<now, last_call_time, spot_prices, period, granted_at, api_call_logs, listings, callers>>

-----------------------------------------------------------------------------
(* app/rate_limiter.py: RateLimiter *)

\* 0.2 s, in ticks
MinInterval == 2

\* mutant: the period's counter survives the rollover
ResetTracker_KeepsCount(tracker, at) ==
    IF Truthy(tracker.daily_limit)
    THEN [tracker EXCEPT !.reset_at = NextDay(ReplaceHMS0(at))]
    ELSE [tracker EXCEPT !.reset_at =
                            IF at.month = 12
                            THEN [ReplaceHMS0(at) EXCEPT !.year = at.year + 1,
                                                         !.month = 1, !.day = 1]
                            ELSE [ReplaceHMS0(at) EXCEPT !.month = at.month + 1, !.day = 1]]

\* mutant: December rolls over to January of the same year
ResetTracker_NoYearWrap(tracker, at) ==
    IF Truthy(tracker.daily_limit)
    THEN [tracker EXCEPT !.daily_calls_used = 0,
                         !.reset_at = NextDay(ReplaceHMS0(at))]
    ELSE [tracker EXCEPT !.monthly_calls_used = 0,
                         !.reset_at = [ReplaceHMS0(at) EXCEPT !.month = (at.month % 12) + 1,
                                                              !.day = 1]]

\* mutant: the daily reset lands on the midnight that has passed
ResetTracker_Today(tracker, at) ==
    IF Truthy(tracker.daily_limit)
    THEN [tracker EXCEPT !.daily_calls_used = 0, !.reset_at = ReplaceHMS0(at)]
    ELSE [tracker EXCEPT !.monthly_calls_used = 0,
                         !.reset_at =
                            IF at.month = 12
                            THEN [ReplaceHMS0(at) EXCEPT !.year = at.year + 1,
                                                         !.month = 1, !.day = 1]
                            ELSE [ReplaceHMS0(at) EXCEPT !.month = at.month + 1, !.day = 1]]

\* RateLimiter._reset_tracker(tracker, now)
ResetTracker(tracker, at) ==
    IF Truthy(tracker.daily_limit)
    THEN [tracker EXCEPT !.daily_calls_used = 0,
                         !.reset_at = NextDay(ReplaceHMS0(at))]
    ELSE IF Truthy(tracker.monthly_limit)
    THEN [tracker EXCEPT !.monthly_calls_used = 0,
                         !.reset_at =
                            IF at.month = 12
                            THEN [ReplaceHMS0(at) EXCEPT !.year = at.year + 1,
                                                         !.month = 1, !.day = 1]
                            ELSE [ReplaceHMS0(at) EXCEPT !.month = at.month + 1, !.day = 1]]
    ELSE tracker

\* "if now >= tracker.reset_at: self._reset_tracker(tracker, now)"
RollOverIfDue(tracker, at) ==
    IF DtLE(tracker.reset_at, at) THEN ResetTracker(tracker, at) ELSE tracker

\* mutant: the check lets one call too many through
LimitReached_OffByOne(tracker) ==
    IF Truthy(tracker.daily_limit)
    THEN tracker.daily_calls_used > Val(tracker.daily_limit)
    ELSE tracker.monthly_calls_used > Val(tracker.monthly_limit)

\* the limit check of check_and_increment: the daily limit when there is one, else
\* the monthly one
LimitReached(tracker) ==
    IF Truthy(tracker.daily_limit)
    THEN tracker.daily_calls_used >= Val(tracker.daily_limit)
    ELSE IF Truthy(tracker.monthly_limit)
    THEN tracker.monthly_calls_used >= Val(tracker.monthly_limit)
    ELSE FALSE

\* mutant: the last-call stamp is written before the limit is checked
RowAfterRaise_Stamped(before, tracker, at) == [tracker EXCEPT !.last_call_at = Some(at)]

\* the stored row after "raise APIRateLimitError": the session is neither committed
\* nor flushed, the row stays as it was loaded
RowAfterRaise(before, tracker, at) == before

\* APIRateLimitError(api_name, limit, reset_at.isoformat()); isoformat() writes every
\* field of the datetime, so the datetime itself stands for the string
APIRateLimitError(tracker) ==
    [api_name |-> tracker.api_name,
     limit |-> IF Truthy(tracker.daily_limit) THEN Val(tracker.daily_limit)
               ELSE Val(tracker.monthly_limit),
     reset_at |-> tracker.reset_at]

\* mutant: a granted call is charged twice
CountCall_Twice(tracker) ==
    IF Truthy(tracker.daily_limit)
    THEN [tracker EXCEPT !.daily_calls_used = @ + 2]
    ELSE IF Truthy(tracker.monthly_limit)
    THEN [tracker EXCEPT !.monthly_calls_used = @ + 2]
    ELSE tracker

\* "tracker.daily_calls_used += 1" / "tracker.monthly_calls_used += 1"
CountCall(tracker) ==
    IF Truthy(tracker.daily_limit)
    THEN [tracker EXCEPT !.daily_calls_used = @ + 1]
    ELSE IF Truthy(tracker.monthly_limit)
    THEN [tracker EXCEPT !.monthly_calls_used = @ + 1]
    ELSE tracker

\* mutant: the wait is computed from the full interval less one tick
BurstSleep_Short(last_call, t) ==
    IF Truthy(last_call) /\ t - Val(last_call) < MinInterval - 1
    THEN MinInterval - 1 - (t - Val(last_call))
    ELSE 0

\* burst protection: the time to sleep, given last_call_time.get(api_name) and time.time()
BurstSleep(last_call, t) ==
    IF Truthy(last_call) /\ t - Val(last_call) < MinInterval
    THEN MinInterval - (t - Val(last_call))
    ELSE 0

\* history: the period of a tracker after an operation that found it as `before` and
\* left it as `after`; what is "granted", "rejected" or "read"
NextPeriod(p, before, after, what) ==
    LET q == IF after.reset_at # before.reset_at
             THEN [granted |-> 0, rejected |-> FALSE, prev_rejected |-> p.rejected,
                   prev_reset_at |-> Some(before.reset_at)]
             ELSE p
    IN  IF what = "granted" THEN [q EXCEPT !.granted = @ + 1]
        ELSE IF what = "rejected" THEN [q EXCEPT !.rejected = TRUE]
        ELSE q

CheckAndIncrement(api_name) ==
    /\ tables_created
    /\ LET i == FindTracker(rate_limit_tracker, api_name) IN
       IF i = 0
       THEN \* no tracker: warning, return True
            /\ result' = [NoResult EXCEPT !.op = "check_and_increment",
                                          !.api_name = api_name,
                                          !.outcome = "True"]
            /\ UNCHANGED <<now, tables_created, rate_limit_tracker, last_call_time,
                           spot_prices, period, granted_at, api_call_logs, listings, callers>>
       ELSE LET before == rate_limit_tracker[i]
                at == now
                tracker == RollOverIfDue(before, at)
            IN  IF LimitReached(tracker)
                THEN \* raise APIRateLimitError: nothing is committed
                     /\ result' = [NoResult EXCEPT !.op = "check_and_increment",
                                                   !.api_name = api_name,
                                                   !.outcome = "APIRateLimitError",
                                                   !.tracked = TRUE,
                                                   !.rolled = DtLE(before.reset_at, at),
                                                   !.err = Some(APIRateLimitError(tracker))]
                     /\ period' = [period EXCEPT ![api_name] =
                                      NextPeriod(@, before, before, "rejected")]
                     /\ rate_limit_tracker' =
                           [rate_limit_tracker EXCEPT ![i] = RowAfterRaise(before, tracker, at)]
                     /\ UNCHANGED <<now, tables_created, last_call_time, spot_prices,
                                    granted_at, api_call_logs, listings, callers>>
                ELSE LET sleep_time == BurstSleep(last_call_time[api_name], TimeTime(now))
                     IN  /\ InWindow(AddTicks(now, sleep_time))
                         /\ now' = AddTicks(now, sleep_time)
                         /\ rate_limit_tracker' =
                               [rate_limit_tracker EXCEPT ![i] =
                                   [CountCall(tracker) EXCEPT !.last_call_at = Some(at)]]
                         /\ last_call_time' =
                               [last_call_time EXCEPT ![api_name] = Some(TimeTime(now'))]
                         /\ period' = [period EXCEPT ![api_name] =
                                          NextPeriod(@, before, tracker, "granted")]
                         /\ granted_at' =
                               [granted_at EXCEPT ![api_name] = Some(TimeTime(now'))]
                         /\ result' = [NoResult EXCEPT !.op = "check_and_increment",
                                                       !.api_name = api_name,
                                                       !.outcome = "True",
                                                       !.tracked = TRUE,
                                                       !.rolled = DtLE(before.reset_at, at),
                                                       !.slept = sleep_time]
                         /\ UNCHANGED <<tables_created, spot_prices, api_call_logs, listings, callers>>

\* mutant: the snapshot reports the whole limit as remaining
StatusOf_FullRemaining(tracker) ==
    [api_name |-> tracker.api_name,
     limit |-> Val(PyOr(tracker.daily_limit, tracker.monthly_limit)),
     calls_used |-> tracker.daily_calls_used + tracker.monthly_calls_used,
     calls_remaining |-> Val(PyOr(tracker.daily_limit, tracker.monthly_limit)),
     reset_at |-> tracker.reset_at,
     last_call_at |-> tracker.last_call_at]

\* the dict get_status returns (percentage_used, a float derived from calls_used and
\* limit, is left out)
StatusOf(tracker) ==
    LET limit == PyOr(tracker.daily_limit, tracker.monthly_limit)
        calls_used == IF tracker.daily_calls_used # 0 THEN tracker.daily_calls_used
                      ELSE tracker.monthly_calls_used
    IN  [api_name |-> tracker.api_name,
         limit |-> Val(limit),
         calls_used |-> calls_used,
         calls_remaining |-> Val(limit) - calls_used,
         reset_at |-> tracker.reset_at,
         last_call_at |-> tracker.last_call_at]

GetStatus(api_name) ==
    /\ tables_created
    /\ LET i == FindTracker(rate_limit_tracker, api_name) IN
       IF i = 0
       THEN /\ result' = [NoResult EXCEPT !.op = "get_status", !.api_name = api_name,
                                          !.outcome = "None"]
            /\ UNCHANGED <<now, tables_created, rate_limit_tracker, last_call_time,
                           spot_prices, period, granted_at, api_call_logs, listings, callers>>
       ELSE LET before == rate_limit_tracker[i]
                at == now
                tracker == RollOverIfDue(before, at)
            IN  /\ rate_limit_tracker' = [rate_limit_tracker EXCEPT ![i] = tracker]
                /\ period' = [period EXCEPT ![api_name] =
                                 NextPeriod(@, before, tracker, "read")]
                /\ result' = [NoResult EXCEPT !.op = "get_status", !.api_name = api_name,
                                              !.outcome = "status", !.tracked = TRUE,
                                              !.rolled = DtLE(before.reset_at, at),
                                              !.status = Some(StatusOf(tracker))]
                /\ UNCHANGED <<now, tables_created, last_call_time, spot_prices, granted_at, api_call_logs, listings, callers>>

-----------------------------------------------------------------------------
(* app/price_cache.py: PriceCache; app/config.py: the cache durations, in minutes *)

CACHE_MARKET_HOURS == 15
CACHE_OFF_HOURS == 60
CACHE_WEEKEND == 240

MetalTypes == {"gold", "silver"}

\* PriceCache.is_market_hours, at Eastern time now_et: Monday to Friday, from 09:30:00
\* to 16:00:00, both ends included
IsMarketHours(now_et) ==
    /\ Weekday(now_et) < 5
    /\ 9 * TicksPerHour + 30 * TicksPerMinute <= now_et.tick
    /\ now_et.tick <= 16 * TicksPerHour

\* PriceCache.get_cache_duration_minutes, when utcnow() is utc
CacheDurationMinutes(utc) ==
    IF Weekday(EasternTime(utc)) >= 5 THEN CACHE_WEEKEND
    ELSE IF IsMarketHours(EasternTime(utc)) THEN CACHE_MARKET_HOURS
    ELSE CACHE_OFF_HOURS

\* SpotPrice(metal_type, price_per_oz, fetched_at)
SpotPrice(metal_type, price_per_oz, fetched_at) ==
    [metal_type |-> metal_type, price_per_oz |-> price_per_oz, fetched_at |-> fetched_at]

\* the rows "filter(metal_type == m).order_by(desc(fetched_at)).first()" may return:
\* the rows of the metal with the greatest fetched_at (SQL leaves the order of equal
\* keys open)
LatestPrices(table, metal_type) ==
    {i \in 1..Len(table) :
        /\ table[i].metal_type = metal_type
        /\ \A j \in 1..Len(table) :
                table[j].metal_type = metal_type =>
                    DtLE(table[j].fetched_at, table[i].fetched_at)}

\* mutant: a cached price counts as stale only once its age exceeds the duration
IsStale_Late(age_minutes, cache_duration) == age_minutes > cache_duration

\* "is_stale = age_minutes >= cache_duration"
IsStale(age_minutes, cache_duration) == age_minutes >= cache_duration

\* the dict get_cached_price builds from the row latest_price at time utc
CachedPrice(latest_price, utc) ==
    LET age_minutes == TruncDiv(TicksBetween(latest_price.fetched_at, utc), TicksPerMinute)
    IN  [price_per_oz |-> latest_price.price_per_oz,
         fetched_at |-> latest_price.fetched_at,
         age_minutes |-> age_minutes,
         is_stale |-> IsStale(age_minutes, CacheDurationMinutes(utc)),
         from_cache |-> FALSE,
         fallback |-> FALSE]

\* what get_cached_price(metal_type) may return: None, or the dict of a latest row
CachedPrices(table, metal_type, utc) ==
    IF LatestPrices(table, metal_type) = {} THEN {None}
    ELSE {Some(CachedPrice(table[i], utc)) : i \in LatestPrices(table, metal_type)}

\* mutant: the new price overwrites the metal's rows instead of being added
StorePrice_Replaces(table, metal_type, price_per_oz, utc) ==
    Append(SelectSeq(table, LAMBDA row : row.metal_type # metal_type),
           SpotPrice(metal_type, price_per_oz, utc))

\* PriceCache.store_price: the table after db.add(SpotPrice(...)); db.commit()
StorePrice(table, metal_type, price_per_oz, utc) ==
    Append(table, SpotPrice(metal_type, price_per_oz, utc))

\* mutant: the fallback is taken only while the cached price is still fresh
FallbackTo_FreshOnly(cached) == cached # None /\ ~Val(cached).is_stale

\* "if cached:" in the except branch of get_or_fetch_price
FallbackTo(cached) == cached # None

\* PriceCache.get_cached_price(metal_type)
GetCachedPrice(metal_type) ==
    /\ tables_created
    /\ \E cached \in CachedPrices(spot_prices, metal_type, now) :
        result' = [NoResult EXCEPT !.op = "get_cached_price", !.api_name = metal_type,
                                   !.outcome = "returned", !.value = cached]
    /\ UNCHANGED <<now, tables_created, rate_limit_tracker, last_call_time, spot_prices,
                   period, granted_at, api_call_logs, listings, callers>>

\* mutant: a stale cached price is reported as absent
OnlyPrice_FreshOnly(cached) ==
    IF cached # None /\ ~Val(cached).is_stale THEN Some(Val(cached).price_per_oz) ELSE None

\* "prices[metal_type] = cached['price_per_oz'] if cached else None"
OnlyPrice(cached) ==
    IF cached # None THEN Some(Val(cached).price_per_oz) ELSE None

\* MetalsAPIClient.get_cached_prices_only(): one get_cached_price per metal
GetCachedPricesOnly ==
    /\ tables_created
    /\ \E cached \in [MetalTypes -> UNION {CachedPrices(spot_prices, m, now) : m \in MetalTypes}] :
        /\ \A m \in MetalTypes : cached[m] \in CachedPrices(spot_prices, m, now)
        /\ result' = [NoResult EXCEPT !.op = "get_cached_prices_only",
                                      !.outcome = "returned",
                                      !.prices = Some([m \in MetalTypes |-> OnlyPrice(cached[m])])]
    /\ UNCHANGED <<now, tables_created, rate_limit_tracker, last_call_time, spot_prices,
                   period, granted_at, api_call_logs, listings, callers>>

\* mutant: a store_price that fails goes unnoticed
Stored_AnyFetch(fetched, store_ok) == fetched # None

\* the try block of get_or_fetch_price ends without an exception: fetch_func returned
\* and store_price committed
Stored(fetched, store_ok) == fetched # None /\ store_ok

\* PriceCache.get_or_fetch_price(metal_type, fetch_func): fetched is what fetch_func
\* returns (None: it raises), store_ok whether store_price commits
GetOrFetchPrice(metal_type, fetched, store_ok) ==
    /\ tables_created
    /\ \E cached \in CachedPrices(spot_prices, metal_type, now) :
        IF cached # None /\ ~Val(cached).is_stale
        THEN \* the cache is valid
             /\ result' = [NoResult EXCEPT !.op = "get_or_fetch_price",
                                           !.api_name = metal_type,
                                           !.outcome = "returned",
                                           !.value = Some([Val(cached) EXCEPT
                                                            !.from_cache = TRUE])]
             /\ UNCHANGED spot_prices
        ELSE IF Stored(fetched, store_ok)
        THEN \* fetch_func and store_price succeed
             /\ spot_prices' = StorePrice(spot_prices, metal_type, Val(fetched), now)
             /\ result' = [NoResult EXCEPT !.op = "get_or_fetch_price",
                                           !.api_name = metal_type,
                                           !.outcome = "returned",
                                           !.fetch_calls = 1,
                                           !.fetched = fetched,
                                           !.value = Some([price_per_oz |-> Val(fetched),
                                                           fetched_at |-> now,
                                                           age_minutes |-> 0,
                                                           is_stale |-> FALSE,
                                                           from_cache |-> FALSE,
                                                           fallback |-> FALSE])]
        ELSE \* fetch_func or store_price raises (store_price rolls back)
             /\ UNCHANGED spot_prices
             /\ IF FallbackTo(cached)
                THEN result' = [NoResult EXCEPT !.op = "get_or_fetch_price",
                                                !.api_name = metal_type,
                                                !.outcome = "returned",
                                                !.fetch_calls = 1,
                                                !.fetched = fetched,
                                                !.value = Some([Val(cached) EXCEPT
                                                                 !.from_cache = TRUE,
                                                                 !.fallback = TRUE])]
                ELSE result' = [NoResult EXCEPT !.op = "get_or_fetch_price",
                                                !.api_name = metal_type,
                                                !.outcome = "raised",
                                                !.fetched = fetched,
                                                !.fetch_calls = 1]
    /\ UNCHANGED <<now, tables_created, rate_limit_tracker, last_call_time, period,
                   granted_at, api_call_logs, listings, callers>>

-----------------------------------------------------------------------------
(* The price cache and its callers, one call at a time *)

\* what fetch_func returns when it does not raise
Prices == {1, 2}

\* the cache is watched from Friday 2025-01-03 at 15:45:00 Eastern time: the hours
\* that follow hold the market's close at 16:00:00 and the weekend's start at midnight
CacheStartClock == DT(2025, 1, 3, 20 * TicksPerHour + 45 * TicksPerMinute)

\* the longer steps of the clock: four hours, and 100 ms less than a quarter of an hour
BlockTicks == 4 * TicksPerHour
QuarterTicks == 15 * TicksPerMinute - 1

InCacheWindow(dt) ==
    /\ DtLE(CacheStartClock, dt)
    /\ TicksBetween(CacheStartClock, dt) \div BlockTicks <= MaxBlocks
    /\ (TicksBetween(CacheStartClock, dt) % BlockTicks) \div QuarterTicks <= MaxQuarters
    /\ (TicksBetween(CacheStartClock, dt) % BlockTicks) % QuarterTicks <= MaxTicks

\* time passes between two operations: 100 ms, nearly a quarter of an hour, or four
\* hours
TickCache ==
    /\ \E n \in {1, QuarterTicks, BlockTicks} :
        /\ InCacheWindow(AddTicks(now, n))
        /\ now' = AddTicks(now, n)
    /\ UNCHANGED <<tables_created, rate_limit_tracker, last_call_time, spot_prices,
                   period, granted_at, result, api_call_logs, listings, callers>>

\* the process has started (init_db has run) and no price was fetched yet
InitCache ==
    /\ now = CacheStartClock
    /\ tables_created = TRUE
    /\ rate_limit_tracker = <<NewEbayTracker(CacheStartClock),
                              NewMetalsTracker(CacheStartClock)>>
    /\ last_call_time = [a \in ApiNames |-> None]
    /\ spot_prices = <<>>
    /\ api_call_logs = <<>>
    /\ listings = <<>>
    /\ callers = NoCallers
    /\ period = [a \in ApiNames |-> NoPeriod]
    /\ granted_at = [a \in ApiNames |-> None]
    /\ result = NoResult

NextCache ==
    \/ TickCache
    \/ \E m \in MetalTypes : GetCachedPrice(m)
    \/ GetCachedPricesOnly
    \/ \E m \in MetalTypes, fetched \in {None} \cup {Some(p) : p \in Prices} :
        /\ GetOrFetchPrice(m, fetched, TRUE)
        /\ Len(spot_prices') <= MaxRows

SpecCache == InitCache /\ [][NextCache]_vars

-----------------------------------------------------------------------------
(* The rate limiter and its callers, one call at a time *)

Init ==
    /\ now = StartClock
    /\ tables_created = FALSE
    /\ rate_limit_tracker = <<>>
    /\ last_call_time = [a \in ApiNames |-> None]
    /\ spot_prices = <<>>
    /\ api_call_logs = <<>>
    /\ listings = <<>>
    /\ callers = NoCallers
    /\ period = [a \in ApiNames |-> NoPeriod]
    /\ granted_at = [a \in ApiNames |-> None]
    /\ result = NoResult

Next ==
    \/ Tick
    \/ InitDb
    \/ \E a \in ApiNames : CheckAndIncrement(a)
    \/ \E a \in ApiNames : GetStatus(a)

Spec == Init /\ [][Next]_vars

-----------------------------------------------------------------------------
(* Reading the tracker table in the properties below *)

Tracked(a) == \E i \in 1..Len(rate_limit_tracker) : rate_limit_tracker[i].api_name = a

TrackerOf(a) ==
    rate_limit_tracker[CHOOSE i \in 1..Len(rate_limit_tracker) :
                            rate_limit_tracker[i].api_name = a]

IsDaily(r) == r.daily_limit # None

LimitOf(r) == IF IsDaily(r) THEN Val(r.daily_limit) ELSE Val(r.monthly_limit)

UsedOf(r) == IF IsDaily(r) THEN r.daily_calls_used ELSE r.monthly_calls_used

Checked(a) == result.op = "check_and_increment" /\ result.api_name = a /\ result.tracked

-----------------------------------------------------------------------------
(* C1: in a period that starts with calls_used = 0 the first L calls (L the       *)
(* tracker's limit) are allowed, a further call before reset_at is rejected with  *)
(* APIRateLimitError, and the first call at or after reset_at is allowed and      *)
(* leaves calls_used = 1.  `period` counts the calls granted since the rollover.  *)
C1_QuotaCycle ==
    \A a \in ApiNames : Checked(a) =>
        LET r == TrackerOf(a)
            p == period[a]
        IN  /\ result.outcome \in {"True", "APIRateLimitError"}
            /\ result.outcome = "True" => p.granted <= LimitOf(r)
            /\ result.outcome = "APIRateLimitError" =>
                    p.granted = LimitOf(r) /\ ~result.rolled
            /\ result.rolled => result.outcome = "True" /\ UsedOf(r) = 1

\* the eBay period was used up and a call rejected, the day turned, and the call
\* that rolled the tracker over was allowed
C1_Witness ==
    /\ Checked("ebay") /\ result.rolled /\ result.outcome = "True"
    /\ period["ebay"].prev_rejected
    /\ UsedOf(TrackerOf("ebay")) = 1

(* C2: every tracker's calls_used stays within 0..limit. *)
C2_UsedWithinLimit ==
    \A i \in 1..Len(rate_limit_tracker) :
        LET r == rate_limit_tracker[i]
        IN  /\ 0 <= UsedOf(r) /\ UsedOf(r) <= LimitOf(r)
            /\ r.daily_calls_used >= 0 /\ r.monthly_calls_used >= 0

\* a tracker is at its limit and the call that followed was rejected
C2_Witness ==
    \E a \in ApiNames :
        /\ Checked(a) /\ result.outcome = "APIRateLimitError"
        /\ UsedOf(TrackerOf(a)) = LimitOf(TrackerOf(a))

(* C3: a call rejected with APIRateLimitError leaves the stored tracker and the   *)
(* in-process last-call time as they were, does not wait, and the error carries   *)
(* the tracker's limit and reset_at.                                              *)
C3_RejectionChangesNothing ==
    [][\A a \in ApiNames :
        (CheckAndIncrement(a) /\ result'.outcome = "APIRateLimitError") =>
            /\ rate_limit_tracker' = rate_limit_tracker
            /\ last_call_time' = last_call_time
            /\ now' = now /\ result'.slept = 0
            /\ Val(result'.err).api_name = a
            /\ Val(result'.err).limit = LimitOf(TrackerOf(a))
            /\ Val(result'.err).reset_at = TrackerOf(a).reset_at]_vars

\* a call on a tracker that was called before is rejected
C3_Witness ==
    \E a \in ApiNames :
        /\ Checked(a) /\ result.outcome = "APIRateLimitError"
        /\ TrackerOf(a).last_call_at # None /\ last_call_time[a] # None

(* C4: a rollover of the monthly tracker in December sets reset_at to January 1   *)
(* of the next year, in another month to the first day of the next month of the   *)
(* same year; the monthly counter restarts from 0 (the call that rolled over is   *)
(* then counted).                                                                 *)
C4_MonthlyRollover ==
    [][\A i \in 1..Len(rate_limit_tracker) :
        LET r == rate_limit_tracker[i]
            q == rate_limit_tracker'[i]
        IN  (~IsDaily(r) /\ q.reset_at # r.reset_at) =>
                /\ q.reset_at.day = 1
                /\ now.month = 12 =>
                        q.reset_at.year = now.year + 1 /\ q.reset_at.month = 1
                /\ now.month # 12 =>
                        q.reset_at.year = now.year /\ q.reset_at.month = now.month + 1
                /\ q.monthly_calls_used =
                        (IF result'.op = "check_and_increment" THEN 1 ELSE 0)]_vars

\* the metals-api tracker was rolled over in December
C4_Witness ==
    /\ Tracked("metals-api")
    /\ result.rolled /\ result.api_name = "metals-api"
    /\ TrackerOf("metals-api").reset_at.year = StartClock.year + 1
    /\ TrackerOf("metals-api").reset_at.month = 1
    /\ TrackerOf("metals-api").reset_at.day = 1

(* C5: after a check_and_increment or get_status on a tracked api_name reset_at   *)
(* is later than the time of the call, and reset_at of a tracker never moves      *)
(* back.                                                                          *)
C5_ResetAtAhead ==
    [][/\ \A a \in ApiNames :
            ((CheckAndIncrement(a) \/ GetStatus(a)) /\ Tracked(a)) =>
                DtLT(now, TrackerOf(a)'.reset_at)
       /\ \A i \in 1..Len(rate_limit_tracker) :
            DtLE(rate_limit_tracker[i].reset_at, rate_limit_tracker'[i].reset_at)]_vars

\* a daily rollover two days or more after the reset_at it replaces
C5_Witness ==
    /\ Tracked("ebay") /\ result.tracked /\ result.rolled /\ result.api_name = "ebay"
    /\ period["ebay"].prev_reset_at # None
    /\ Ordinal(TrackerOf("ebay").reset_at)
            - Ordinal(Val(period["ebay"].prev_reset_at)) >= 2

(* C6: two consecutive granted calls for one tracked api_name return at least     *)
(* MinInterval apart, the second sleeping for what is missing; the wait depends   *)
(* on that api_name's own last call only, and no other api_name's last-call time  *)
(* is touched.                                                                    *)
C6_BurstSpacing ==
    [][\A a \in ApiNames :
        (CheckAndIncrement(a) /\ result'.tracked /\ result'.outcome = "True") =>
            LET elapsed == TimeTime(now) - Val(granted_at[a])
            IN  /\ granted_at[a] # None =>
                        TimeTime(now') - Val(granted_at[a]) >= MinInterval
                /\ TimeTime(now') - TimeTime(now) = result'.slept
                /\ result'.slept =
                        (IF granted_at[a] # None /\ elapsed < MinInterval
                         THEN MinInterval - elapsed ELSE 0)
                /\ \A b \in ApiNames \ {a} : last_call_time'[b] = last_call_time[b]]_vars

\* a granted call had to wait for part of the interval, while another api_name's
\* call had been granted less than the interval before
C6_Witness ==
    \E a \in ApiNames :
        /\ Checked(a) /\ result.outcome = "True" /\ result.slept = 1
        /\ \E b \in ApiNames \ {a} :
                /\ granted_at[b] # None
                /\ TimeTime(now) - Val(granted_at[b]) < MinInterval

(* C7: get_status does not count a call and does not touch last_call_at: it       *)
(* changes a tracker only by the rollover that is due, and the snapshot it        *)
(* returns has remaining = limit - used, used being the counter after the         *)
(* rollover.                                                                      *)
C7_GetStatusReadOnly ==
    [][\A a \in ApiNames : (GetStatus(a) /\ Tracked(a)) =>
        LET r == TrackerOf(a)
            q == TrackerOf(a)'
            st == Val(result'.status)
        IN  /\ \A i \in 1..Len(rate_limit_tracker) :
                    rate_limit_tracker[i].api_name # a =>
                        rate_limit_tracker'[i] = rate_limit_tracker[i]
            /\ Len(rate_limit_tracker') = Len(rate_limit_tracker)
            /\ q.last_call_at = r.last_call_at
            /\ last_call_time' = last_call_time /\ now' = now
            /\ IF DtLE(r.reset_at, now)
               THEN UsedOf(q) = 0 /\ DtLT(r.reset_at, q.reset_at)
               ELSE q = r
            /\ q.daily_limit = r.daily_limit /\ q.monthly_limit = r.monthly_limit
            /\ st.calls_used = UsedOf(q) /\ st.limit = LimitOf(q)
            /\ st.calls_remaining = LimitOf(q) - UsedOf(q)
            /\ st.reset_at = q.reset_at /\ st.last_call_at = q.last_call_at]_vars

\* get_status rolled over a tracker that had counted calls
C7_Witness ==
    \E a \in ApiNames :
        /\ result.op = "get_status" /\ result.api_name = a /\ result.tracked
        /\ result.rolled /\ period[a].prev_rejected
        /\ Val(result.status).calls_used = 0
        /\ Val(result.status).last_call_at # None

-----------------------------------------------------------------------------
(* Reading the price table in the properties below *)

\* the rows of the metal that no row of the metal is later than
NewestRows(metal_type) ==
    {i \in 1..Len(spot_prices) :
        /\ spot_prices[i].metal_type = metal_type
        /\ \A j \in 1..Len(spot_prices) :
                spot_prices[j].metal_type = metal_type =>
                    TimeTime(spot_prices[j].fetched_at) <= TimeTime(spot_prices[i].fetched_at)}

\* whole minutes since the row was fetched
AgeOf(i) == (TimeTime(now) - TimeTime(spot_prices[i].fetched_at)) \div TicksPerMinute

\* the row is younger than the freshness window in force now
Fresh(i) == AgeOf(i) < CacheDurationMinutes(now)

\* the call returned the row unmodified
ReturnsRow(res, i) ==
    /\ res.outcome = "returned"
    /\ res.value # None
    /\ Val(res.value).price_per_oz = spot_prices[i].price_per_oz
    /\ Val(res.value).fetched_at = spot_prices[i].fetched_at

GetOrFetch(metal_type) ==
    \E fetched \in {None} \cup {Some(p) : p \in Prices} :
        GetOrFetchPrice(metal_type, fetched, TRUE)

(* C8: get_or_fetch_price calls fetch_func at most once; not at all when the latest
   cached price of the metal is younger than the current freshness window, and then it
   returns that price and its fetch time unmodified and writes nothing; exactly once
   when the metal has no cached price or the latest one is at least as old as the
   window *)
C8_FetchOnlyWhenStale ==
    [][\A m \in MetalTypes :
        GetOrFetch(m) =>
            /\ result'.fetch_calls \in {0, 1}
            /\ (\E i \in NewestRows(m) : Fresh(i)) =>
                    /\ result'.fetch_calls = 0
                    /\ \E i \in NewestRows(m) : ReturnsRow(result', i)
                    /\ Val(result'.value).from_cache
                    /\ spot_prices' = spot_prices
            /\ (NewestRows(m) = {} \/ \E i \in NewestRows(m) : ~Fresh(i)) =>
                    result'.fetch_calls = 1]_vars

\* a price one minute younger than the market-hours window was returned without a
\* fetch, and another metal's price had reached its window
C8_Witness ==
    /\ result.op = "get_or_fetch_price"
    /\ result.fetch_calls = 0
    /\ IsMarketHours(EasternTime(now))
    /\ Val(result.value).age_minutes = CACHE_MARKET_HOURS - 1
    /\ \E i \in 1..Len(spot_prices) :
        /\ spot_prices[i].metal_type # result.api_name
        /\ AgeOf(i) = CACHE_MARKET_HOURS

(* C9: when fetch_func raises during get_or_fetch_price, the price table is unchanged;
   if the metal has a cached price, whatever its age, the call returns it tagged
   from_cache and fallback (and stale) and does not raise; if the metal has none, the
   exception reaches the caller *)
C9_StaleFallback ==
    [][\A m \in MetalTypes :
        (GetOrFetchPrice(m, None, TRUE) /\ result'.fetch_calls = 1) =>
            /\ spot_prices' = spot_prices
            /\ NewestRows(m) # {} =>
                    /\ \E i \in NewestRows(m) : ReturnsRow(result', i)
                    /\ Val(result'.value).from_cache
                    /\ Val(result'.value).fallback
                    /\ Val(result'.value).is_stale
            /\ NewestRows(m) = {} => result'.outcome = "raised"]_vars

\* a price eight hours old was returned as the fallback
C9_Witness ==
    /\ result.op = "get_or_fetch_price"
    /\ result.fetch_calls = 1
    /\ result.outcome = "returned"
    /\ Val(result.value).fallback
    /\ Val(result.value).age_minutes >= 2 * CACHE_WEEKEND

(* C10: when fetch_func returns a price during get_or_fetch_price, one row holding the
   metal, that price and the current time is added after the rows of the table, which
   stay as they were; the call returns the price tagged not from cache, not stale and
   not a fallback; and the new row is the one the next lookup of the metal returns *)
C10_FetchStoresOneRow ==
    [][\A m \in MetalTypes : \A p \in Prices :
        (GetOrFetchPrice(m, Some(p), TRUE) /\ result'.fetch_calls = 1) =>
            /\ Len(spot_prices') = Len(spot_prices) + 1
            /\ SubSeq(spot_prices', 1, Len(spot_prices)) = spot_prices
            /\ spot_prices'[Len(spot_prices')] = SpotPrice(m, p, now)
            /\ result'.outcome = "returned"
            /\ Val(result'.value).price_per_oz = p
            /\ ~Val(result'.value).from_cache
            /\ ~Val(result'.value).fallback
            /\ ~Val(result'.value).is_stale
            /\ \A t \in {now', AddTicks(now', QuarterTicks)} :
                CachedPrices(spot_prices', m, t) =
                    {Some(CachedPrice(SpotPrice(m, p, now), t))}]_vars

\* a second price of a metal was fetched and stored after the rows the table held
C10_Witness ==
    /\ result.op = "get_or_fetch_price"
    /\ result.fetch_calls = 1
    /\ result.fetched # None
    /\ Len(spot_prices) = 2
    /\ spot_prices[1].metal_type = spot_prices[2].metal_type
    /\ spot_prices[1].price_per_oz # spot_prices[2].price_per_oz
    /\ spot_prices[2].price_per_oz = Val(result.fetched)

-----------------------------------------------------------------------------
(* The freshness window at sampled instants (PriceCache.get_cache_duration_minutes) *)

\* the instants sampled: every half hour, and 100 ms before and after it, of the week
\* from Monday 2025-01-06 (Eastern standard time) and of the week from Monday
\* 2025-07-07 (Eastern daylight time), in UTC
WindowTimes ==
    {DT(2025, md[1], md[2] + d, (h * TicksPerHour + m * TicksPerMinute + f) % TicksPerDay) :
        md \in {<<1, 6>>, <<7, 7>>}, d \in 0..6, h \in 0..23, m \in {0, 30},
        f \in {-1, 0, 1}}

\* PriceCache.get_cache_duration_minutes()
GetCacheDurationMinutes ==
    /\ result' = [NoResult EXCEPT !.op = "get_cache_duration_minutes",
                                  !.outcome = "returned",
                                  !.value = Some(CacheDurationMinutes(now))]
    /\ UNCHANGED <<now, tables_created, rate_limit_tracker, last_call_time, spot_prices,
                   period, granted_at, api_call_logs, listings, callers>>

InitWindow ==
    /\ now \in WindowTimes
    /\ tables_created = FALSE
    /\ rate_limit_tracker = <<>>
    /\ last_call_time = [a \in ApiNames |-> None]
    /\ spot_prices = <<>>
    /\ api_call_logs = <<>>
    /\ listings = <<>>
    /\ callers = NoCallers
    /\ period = [a \in ApiNames |-> NoPeriod]
    /\ granted_at = [a \in ApiNames |-> None]
    /\ result = NoResult

NextWindow == GetCacheDurationMinutes

SpecWindow == InitWindow /\ [][NextWindow]_vars

\* the Eastern wall clock of a sampled instant, read off the calendar: UTC-5 in
\* January, UTC-4 in July; 2025-01-06 and 2025-07-07 are Mondays (weekday 0)
LocalShift == IF now.month = 7 THEN 4 * TicksPerHour ELSE 5 * TicksPerHour
LocalTimeOfDay == (now.tick - LocalShift) % TicksPerDay
LocalWeekday ==
    LET utc_weekday == (now.day - (IF now.month = 7 THEN 7 ELSE 6)) % 7
    IN  IF now.tick < LocalShift THEN (utc_weekday - 1) % 7 ELSE utc_weekday

(* C11: get_cache_duration_minutes depends on the US/Eastern wall clock only: on a
   Saturday or Sunday it returns the weekend duration at any hour; from Monday to
   Friday it returns the market-hours duration from 09:30 to 16:00 and the off-hours
   duration before 09:30 and after 16:00 *)
C11_WindowByEasternClock ==
    result.op = "get_cache_duration_minutes" =>
        /\ LocalWeekday >= 5 => result.value = Some(CACHE_WEEKEND)
        /\ (/\ LocalWeekday < 5
            /\ LocalTimeOfDay >= 9 * TicksPerHour + 30 * TicksPerMinute
            /\ LocalTimeOfDay <= 16 * TicksPerHour) =>
                result.value = Some(CACHE_MARKET_HOURS)
        /\ (/\ LocalWeekday < 5
            /\ \/ LocalTimeOfDay < 9 * TicksPerHour + 30 * TicksPerMinute
               \/ LocalTimeOfDay > 16 * TicksPerHour) =>
                result.value = Some(CACHE_OFF_HOURS)

\* the duration was asked on Tuesday 2025-07-08 at 10:00 Eastern daylight time
C11_Witness ==
    /\ result.op = "get_cache_duration_minutes"
    /\ now = DT(2025, 7, 8, 14 * TicksPerHour)
    /\ result.value = Some(CACHE_MARKET_HOURS)

(* C12: get_cached_prices_only fetches nothing, leaves the quota rows, the burst
   timestamps and the price table as they are, and reports for each metal the price of
   its latest row, stale or not, or None when the metal has no row *)
C12_CachedOnlyReads ==
    [][GetCachedPricesOnly =>
        /\ UNCHANGED <<spot_prices, rate_limit_tracker, last_call_time, tables_created>>
        /\ result'.fetch_calls = 0
        /\ result'.outcome = "returned"
        /\ \A m \in MetalTypes :
            /\ NewestRows(m) = {} => Val(result'.prices)[m] = None
            /\ NewestRows(m) # {} =>
                \E i \in NewestRows(m) :
                    Val(result'.prices)[m] = Some(spot_prices[i].price_per_oz)]_vars

\* the cached prices were read when one metal's latest price was past its window and
\* another metal had no price
C12_Witness ==
    /\ result.op = "get_cached_prices_only"
    /\ \E m \in MetalTypes :
        /\ NewestRows(m) # {}
        /\ \A i \in NewestRows(m) : ~Fresh(i)
        /\ Val(result.prices)[m] # None
    /\ \E m \in MetalTypes : Val(result.prices)[m] = None

-----------------------------------------------------------------------------
(* app/scrapers/base.py: BaseScraper.make_request and _log_api_call.  The HTTP call
   itself takes no time in the model; time.sleep advances the clock. *)

\* what one requests.get / requests.post may do: answer with a status code, or raise
\* Timeout, ConnectionError or another exception
StatusCodes == {200, 404, 500}

HttpOutcomes ==
    {[kind |-> "response", status_code |-> c] : c \in StatusCodes}
        \cup {[kind |-> k, status_code |-> 0] : k \in {"timeout", "connection", "other"}}

\* 2 ** n
RECURSIVE Pow2(_)
Pow2(n) == IF n <= 0 THEN 1 ELSE 2 * Pow2(n - 1)

\* the text of last_error after the attempt's outcome r
LastError(r) ==
    CASE r.kind = "timeout" -> "Timeout after 10s"
      [] r.kind = "connection" -> "Connection error"
      [] r.kind = "other" -> "Unexpected error"
      [] r.kind = "response" /\ r.status_code < 500 -> "HTTP 4xx"
      [] OTHER -> "HTTP 5xx"

\* APICallLog(...) as _log_api_call builds it
APICallLog(api_name, status_code, success, error_message, response_time_ms, called_at) ==
    [api_name |-> api_name, status_code |-> status_code, success |-> success,
     error_message |-> error_message, response_time_ms |-> response_time_ms,
     called_at |-> called_at]

\* _log_api_call: the table after it; a failed write is swallowed (log_ok = FALSE)
LogApiCall(logs, log_entry, log_ok) == IF log_ok THEN Append(logs, log_entry) ELSE logs

\* log_ok[k] says whether the k-th call of _log_api_call in a request commits its row;
\* a request calls it at most once per attempt and once more at its end
AllLogged == [k \in 1..(API_RETRY_ATTEMPTS + 1) |-> TRUE]

\* whether the call of _log_api_call that follows the events of trace commits
WriteOk(log_ok, trace) == log_ok[Len(SelectSeq(trace, LAMBDA e : e.ev = "log")) + 1]

\* int((time.time() - start_time) * 1000)
ResponseTimeMs(start_time, clock) ==
    TruncDiv(TicksBetween(start_time, clock) * 1000, TicksPerSecond)

\* mutant: the wait before a retry is always one second
SleepTime_Constant(attempt) == 1

\* "sleep_time = 2 ** attempt"
SleepTime(attempt) == Pow2(attempt)

\* "if attempt < self.retry_attempts - 1"
MayRetry(attempt, retry_attempts) == attempt < retry_attempts - 1

\* an event of a request, in the order the code performs them: an HTTP call, a row
\* written to api_call_logs, a time.sleep
Event(ev, attempt, r, seconds) ==
    [ev |-> ev, attempt |-> attempt, kind |-> r.kind, status_code |-> r.status_code,
     seconds |-> seconds]

NoOutcome == [kind |-> "", status_code |-> 0]

\* the request as far as it got: the clock, the table, the events, last_error, and how
\* it ended (outcome "" while the loop runs)
RunStart(clock, logs) ==
    [clock |-> clock, logs |-> logs, trace |-> <<>>, last_error |-> None,
     outcome |-> "", response |-> None, err |-> None]

\* APIConnectionError(api_name, error, retries)
APIConnectionError(api_name, error, retries) ==
    [api_name |-> api_name, error |-> error, retries |-> retries]

\* the code after the loop ("All retries failed")
AfterLoop(api_name, retry_attempts, log_ok, start_time, run) ==
    [run EXCEPT
        !.logs = LogApiCall(run.logs,
                    APICallLog(api_name, None, FALSE, run.last_error,
                               ResponseTimeMs(start_time, run.clock), run.clock),
                    WriteOk(log_ok, run.trace)),
        !.trace = Append(run.trace, Event("log", retry_attempts, NoOutcome, 0)),
        !.outcome = "raised",
        !.err = Some(APIConnectionError(api_name,
                        IF run.last_error # None /\ Val(run.last_error) # ""
                        THEN Val(run.last_error) ELSE "Unknown error",
                        retry_attempts))]

\* mutant: a row that cannot be written ends the request with an error
Logged_OrRaises(api_name, r, log_ok, start_time, attempt, run) ==
    IF WriteOk(log_ok, run.trace)
    THEN [run EXCEPT
            !.logs = Append(run.logs,
                        APICallLog(api_name, Some(r.status_code), r.status_code < 400,
                                   None, ResponseTimeMs(start_time, run.clock),
                                   run.clock)),
            !.trace = run.trace
                      \o <<Event("http", attempt, r, 0), Event("log", attempt, r, 0)>>]
    ELSE [run EXCEPT
            !.trace = run.trace
                      \o <<Event("http", attempt, r, 0), Event("log", attempt, r, 0)>>,
            !.outcome = "raised",
            !.err = Some(APIConnectionError(api_name, "Failed to log API call",
                                            attempt))]

\* lines 73-82: the response r is logged
Logged(api_name, r, log_ok, start_time, attempt, run) ==
    [run EXCEPT
        !.logs = LogApiCall(run.logs,
                    APICallLog(api_name, Some(r.status_code), r.status_code < 400, None,
                               ResponseTimeMs(start_time, run.clock), run.clock),
                    WriteOk(log_ok, run.trace)),
        !.trace = run.trace \o <<Event("http", attempt, r, 0), Event("log", attempt, r, 0)>>]

\* lines 103-113: a 4xx response is logged again and ends the request
ClientError(api_name, r, log_ok, start_time, attempt, run) ==
    [run EXCEPT
        !.last_error = Some(LastError(r)),
        !.logs = LogApiCall(run.logs,
                    APICallLog(api_name, Some(r.status_code), FALSE, Some(LastError(r)),
                               ResponseTimeMs(start_time, run.clock), run.clock),
                    WriteOk(log_ok, run.trace)),
        !.trace = Append(run.trace, Event("log", attempt, r, 0)),
        !.outcome = "raised",
        !.err = Some(APIConnectionError(api_name, LastError(r), attempt))]

\* lines 123-127: the exponential backoff after a failed attempt
Backoff(retry_attempts, attempt, run) ==
    IF MayRetry(attempt, retry_attempts)
    THEN [run EXCEPT
            !.clock = AddTicks(run.clock, SleepTime(attempt) * TicksPerSecond),
            !.trace = Append(run.trace,
                             Event("sleep", attempt, NoOutcome, SleepTime(attempt)))]
    ELSE run

\* one iteration of "for attempt in range(self.retry_attempts)": r is what the HTTP
\* call does
Attempt(api_name, retry_attempts, r, log_ok, start_time, attempt, run) ==
    IF r.kind # "response"
    THEN \* Timeout, ConnectionError, another exception: nothing is logged
         Backoff(retry_attempts, attempt,
                 [run EXCEPT !.last_error = Some(LastError(r)),
                             !.trace = Append(run.trace, Event("http", attempt, r, 0))])
    ELSE IF ~(400 <= r.status_code /\ r.status_code < 600)
    THEN \* raise_for_status() passes: return response
         [Logged(api_name, r, log_ok, start_time, attempt, run) EXCEPT
            !.outcome = "returned", !.response = Some(r.status_code)]
    ELSE IF 400 <= r.status_code /\ r.status_code < 500
    THEN ClientError(api_name, r, log_ok, start_time, attempt,
                     Logged(api_name, r, log_ok, start_time, attempt, run))
    ELSE \* a 5xx response
         Backoff(retry_attempts, attempt,
                 [Logged(api_name, r, log_ok, start_time, attempt, run) EXCEPT
                    !.last_error = Some(LastError(r))])

\* the loop from iteration `attempt` on, and the code after it; responses[attempt + 1]
\* is what the HTTP call of iteration `attempt` does
RECURSIVE RequestLoop(_, _, _, _, _, _, _)
RequestLoop(api_name, retry_attempts, responses, log_ok, start_time, attempt, run) ==
    IF run.outcome # "" THEN run
    ELSE IF attempt >= retry_attempts
    THEN AfterLoop(api_name, retry_attempts, log_ok, start_time, run)
    ELSE CHOOSE done \in
            {RequestLoop(api_name, retry_attempts, responses, log_ok, start_time,
                         attempt + 1, next) :
                next \in {Attempt(api_name, retry_attempts, responses[attempt + 1], log_ok,
                                  start_time, attempt, run)}} : TRUE

\* BaseScraper.make_request(endpoint, params) of the scraper api_name, started at
\* clock reading `clock` on the table `logs`
Request(api_name, responses, log_ok, clock, logs) ==
    RequestLoop(api_name, API_RETRY_ATTEMPTS, responses, log_ok, clock, 0,
                RunStart(clock, logs))

\* BaseScraper.make_request, called on its own
MakeRequest(api_name, responses, log_ok) ==
    /\ tables_created
    /\ \E run \in {Request(api_name, responses, log_ok, now, api_call_logs)} :
           /\ now' = run.clock
           /\ api_call_logs' = run.logs
           /\ result' = [NoResult EXCEPT !.op = "make_request", !.api_name = api_name,
                                         !.outcome = run.outcome, !.err = run.err,
                                         !.value = run.response, !.trace = run.trace]
    /\ UNCHANGED <<tables_created, rate_limit_tracker, last_call_time, spot_prices, period,
                   granted_at, listings, callers>>

-----------------------------------------------------------------------------
(* Requests of the eBay scraper, one at a time *)

\* the scraper is watched from 2025-01-03 12:00:00 UTC, after init_db has run
RequestStartClock == DT(2025, 1, 3, 12 * TicksPerHour)

InitRequest ==
    /\ now = RequestStartClock
    /\ tables_created = TRUE
    /\ rate_limit_tracker = <<NewEbayTracker(RequestStartClock),
                              NewMetalsTracker(RequestStartClock)>>
    /\ last_call_time = [a \in ApiNames |-> None]
    /\ spot_prices = <<>>
    /\ api_call_logs = <<>>
    /\ listings = <<>>
    /\ callers = NoCallers
    /\ period = [a \in ApiNames |-> NoPeriod]
    /\ granted_at = [a \in ApiNames |-> None]
    /\ result = NoResult

\* a request is made while api_call_logs holds fewer than MaxLogs rows
NextRequest ==
    /\ Len(api_call_logs) < MaxLogs
    /\ \E responses \in [1..API_RETRY_ATTEMPTS -> HttpOutcomes] :
            MakeRequest("ebay", responses, AllLogged)

SpecRequest == InitRequest /\ [][NextRequest]_vars

-----------------------------------------------------------------------------
(* Reading the events of a request in the properties below *)

\* the positions of the HTTP calls, of the waits and of the rows written in a trace
HttpAt(t) == {i \in 1..Len(t) : t[i].ev = "http"}
SleepAt(t) == {i \in 1..Len(t) : t[i].ev = "sleep"}
LogAt(t) == {i \in 1..Len(t) : t[i].ev = "log"}

IsClientError(e) == e.kind = "response" /\ 400 <= e.status_code /\ e.status_code < 500
IsServerError(e) == e.kind = "response" /\ 500 <= e.status_code /\ e.status_code < 600
IsSuccess(e) == e.kind = "response" /\ e.status_code < 400
IsTransient(e) == e.kind \in {"timeout", "connection"} \/ IsServerError(e)

\* the step is a call of make_request
Requested == result'.op = "make_request"

\* the rows the step added to api_call_logs
RowsWritten == Len(api_call_logs') - Len(api_call_logs)

(* C13: a 4xx response ends make_request at once with APIConnectionError: no HTTP call
   and no wait follows it; and a request whose only HTTP call was answered with a 4xx
   writes exactly one row to api_call_logs *)
C13_ClientErrorOneAudit ==
    [][Requested =>
        LET t == result'.trace
        IN  /\ \A i \in HttpAt(t) :
                IsClientError(t[i]) =>
                    /\ result'.outcome = "raised"
                    /\ \A j \in HttpAt(t) \cup SleepAt(t) : j <= i
            /\ (Cardinality(HttpAt(t)) = 1 /\ \E i \in HttpAt(t) : IsClientError(t[i])) =>
                    RowsWritten = 1]_vars

(* C14: every HTTP call of make_request, whatever its outcome, writes exactly one row
   to api_call_logs, so a request writes as many rows as it made HTTP calls; three 5xx
   responses followed by a success return the response with four rows written *)
C14_OneAuditPerAttempt ==
    [][Requested =>
        LET t == result'.trace
        IN  /\ RowsWritten = Cardinality(HttpAt(t))
            /\ \A i \in HttpAt(t) :
                Cardinality({j \in LogAt(t) : t[j].attempt = t[i].attempt}) = 1]_vars

\* the seconds slept in a trace
RECURSIVE SecondsSlept(_)
SecondsSlept(t) ==
    IF t = <<>> THEN 0
    ELSE (IF Head(t).ev = "sleep" THEN Head(t).seconds ELSE 0) + SecondsSlept(Tail(t))

(* C15: make_request makes at most retry_attempts HTTP calls, numbered from 0 within
   the call; a timeout, a connection error or a 5xx response is followed by another
   HTTP call while calls remain; two consecutive HTTP calls are separated by one wait of
   2^attempt seconds (attempt: the number of the earlier call), during which the clock
   advances; no wait follows the last HTTP call; and a response below 400 is the last
   HTTP call and is what the request returns *)
C15_RetryWithBackoff ==
    [][Requested =>
        LET t == result'.trace
            H == HttpAt(t)
        IN  /\ Cardinality(H) <= API_RETRY_ATTEMPTS
            /\ \A i \in H : t[i].attempt = Cardinality({j \in H : j < i})
            /\ \A i \in H :
                (IsTransient(t[i]) /\ t[i].attempt < API_RETRY_ATTEMPTS - 1) =>
                    \E j \in H : j > i
            /\ \A i \in H : \A j \in H :
                (i < j /\ t[j].attempt = t[i].attempt + 1) =>
                    /\ Cardinality({k \in SleepAt(t) : i < k /\ k < j}) = 1
                    /\ \A k \in SleepAt(t) :
                        (i < k /\ k < j) => t[k].seconds = Pow2(t[i].attempt)
            /\ \A i \in H :
                (\A j \in H : j <= i) => \A k \in SleepAt(t) : k < i
            /\ \A i \in H :
                IsSuccess(t[i]) =>
                    /\ \A j \in H : j <= i
                    /\ result'.outcome = "returned"
                    /\ result'.value = Some(t[i].status_code)
            /\ TicksBetween(now, now') = SecondsSlept(t) * TicksPerSecond]_vars

\* a timeout, a connection error and a 5xx response were retried after 1, 2 and 4
\* seconds, and the fourth HTTP call succeeded
C15_Witness ==
    /\ result.op = "make_request"
    /\ result.outcome = "returned"
    /\ Cardinality(HttpAt(result.trace)) = 4
    /\ SecondsSlept(result.trace) = 7
    /\ \E i \in HttpAt(result.trace) : result.trace[i].kind = "timeout"
    /\ \E i \in HttpAt(result.trace) : result.trace[i].kind = "connection"
    /\ \E i \in HttpAt(result.trace) : IsServerError(result.trace[i])

(* C16: every APIConnectionError raised by make_request carries the scraper's api_name,
   the description of the last error, and the number of HTTP calls the request made:
   retry_attempts after the retries are exhausted, 1 after a 4xx response to the first
   call *)
C16_ErrorCarriesAttempts ==
    (result.op = "make_request" /\ result.outcome = "raised") =>
        LET t == result.trace
            last == CHOOSE i \in HttpAt(t) : \A j \in HttpAt(t) : j <= i
        IN  /\ Val(result.err).api_name = result.api_name
            /\ Val(result.err).error = LastError(t[last])
            /\ Val(result.err).retries = Cardinality(HttpAt(t))

-----------------------------------------------------------------------------
(* Weight extraction (app/scrapers/ebay.py). A title is a sequence of characters; a
   weight is kept exact as n / (d * 10^e) until it is rounded to 4 decimals, and a
   rounded weight is counted in units of 0.0001 troy ounce. *)

Digits == {"0", "1", "2", "3", "4", "5", "6", "7", "8", "9"}

DigitValue ==
    "0" :> 0 @@ "1" :> 1 @@ "2" :> 2 @@ "3" :> 3 @@ "4" :> 4 @@
    "5" :> 5 @@ "6" :> 6 @@ "7" :> 7 @@ "8" :> 8 @@ "9" :> 9

\* str.lower() on the characters that occur in the titles
LowerChar(c) == IF c = "O" THEN "o" ELSE c
Lower(title) == [i \in 1..Len(title) |-> LowerChar(title[i])]

\* the character at position i, "" past the end
At(s, i) == IF i >= 1 /\ i <= Len(s) THEN s[i] ELSE ""

\* s continues at position i with the characters of w
StartsWith(s, i, w) == \A k \in 1..Len(w) : At(s, i + k - 1) = w[k]

\* \d+ and \s* are greedy: the first position from i on that is not a digit / a space
RECURSIVE DigitsEnd(_, _)
DigitsEnd(s, i) == IF At(s, i) \in Digits THEN DigitsEnd(s, i + 1) ELSE i

RECURSIVE SpacesEnd(_, _)
SpacesEnd(s, i) == IF At(s, i) = " " THEN SpacesEnd(s, i + 1) ELSE i

\* \d+(?:\.\d+)? from a digit at position i: the position after the number
NumberEnd(s, i) ==
    LET j == DigitsEnd(s, i)
    IN  IF At(s, j) = "." /\ At(s, j + 1) \in Digits THEN DigitsEnd(s, j + 2) ELSE j

\* \s*(?:troy\s*)?(?:oz|ounce)(?:s)? matches at position k
OunceUnitAt(s, k) ==
    LET m == SpacesEnd(s, k)
        u == IF StartsWith(s, m, <<"t", "r", "o", "y">>) THEN SpacesEnd(s, m + 4) ELSE m
    IN  StartsWith(s, u, <<"o", "z">>) \/ StartsWith(s, u, <<"o", "u", "n", "c", "e">>)

\* \s*g(?:ram)?(?:s)? matches at position k
GramUnitAt(s, k) == At(s, SpacesEnd(s, k)) = "g"

\* the positions where each pattern of WEIGHT_PATTERNS matches
OunceStarts(s) ==
    {i \in 1..Len(s) : s[i] \in Digits /\ OunceUnitAt(s, NumberEnd(s, i))}
FractionStarts(s) ==
    {i \in 1..Len(s) :
        /\ s[i] \in Digits
        /\ At(s, DigitsEnd(s, i)) = "/"
        /\ At(s, DigitsEnd(s, i) + 1) \in Digits
        /\ OunceUnitAt(s, DigitsEnd(s, DigitsEnd(s, i) + 1))}
GramStarts(s) ==
    {i \in 1..Len(s) : s[i] \in Digits /\ GramUnitAt(s, NumberEnd(s, i))}

Min(S) == CHOOSE x \in S : \A y \in S : x <= y

\* float(text) of a group \d+(?:\.\d+)?, exact: the digits as an integer n and the number
\* e of digits after the point, for n / 10^e
RECURSIVE ToFloat(_)
ToFloat(text) ==
    IF text = <<>> THEN [n |-> 0, e |-> 0, point |-> FALSE]
    ELSE LET c == text[Len(text)]
             rest == ToFloat(SubSeq(text, 1, Len(text) - 1))
         IN  IF c = "." THEN [n |-> rest.n, e |-> 0, point |-> TRUE]
             ELSE [n |-> rest.n * 10 + DigitValue[c],
                   e |-> IF rest.point THEN rest.e + 1 ELSE 0,
                   point |-> rest.point]

RECURSIVE Pow10(_)
Pow10(k) == IF k = 0 THEN 1 ELSE 10 * Pow10(k - 1)

\* n / 10^e as its integer part q and whether a fraction is left over
RECURSIVE ShiftRight(_, _)
ShiftRight(n, e) ==
    IF e = 0 THEN [q |-> n, sticky |-> FALSE]
    ELSE LET sh == ShiftRight(n \div 10, e - 1)
         IN  [q |-> sh.q, sticky |-> sh.sticky \/ n % 10 # 0]

\* WEIGHT_PATTERNS, in priority order; the conversion factor f is f.n / 10^f.e
WEIGHT_PATTERNS ==
    <<[pattern |-> "ounce", groups |-> 1, conversion_factor |-> [n |-> 1, e |-> 0]],
      [pattern |-> "fraction", groups |-> 2, conversion_factor |-> [n |-> 1, e |-> 0]],
      [pattern |-> "gram", groups |-> 1, conversion_factor |-> [n |-> 321507, e |-> 7]]>>

\* re.search(pattern, title_lower): the groups of the leftmost match, or None
Search(pattern, s) ==
    IF pattern = "ounce"
    THEN IF OunceStarts(s) = {} THEN None
         ELSE LET i == Min(OunceStarts(s))
              IN  Some(<<SubSeq(s, i, NumberEnd(s, i) - 1)>>)
    ELSE IF pattern = "fraction"
    THEN IF FractionStarts(s) = {} THEN None
         ELSE LET i == Min(FractionStarts(s))
                  j == DigitsEnd(s, i)
              IN  Some(<<SubSeq(s, i, j - 1), SubSeq(s, j + 1, DigitsEnd(s, j + 1) - 1)>>)
    ELSE IF GramStarts(s) = {} THEN None
         ELSE LET i == Min(GramStarts(s))
              IN  Some(<<SubSeq(s, i, NumberEnd(s, i) - 1)>>)

\* weight <= 0 or weight > 1000
Invalid(weight) ==
    LET sh == ShiftRight(weight.n, weight.e)
    IN  \/ weight.n <= 0
        \/ sh.q > 1000 * weight.d
        \/ sh.q = 1000 * weight.d /\ sh.sticky

\* a / b rounded to the nearest integer, a tie to the even one
RoundHalfEven(a, b) ==
    LET q == a \div b
        r == a % b
    IN  IF 2 * r > b \/ (2 * r = b /\ q % 2 = 1) THEN q + 1 ELSE q

\* round(weight, 4), in units of 0.0001
Round4(weight) ==
    IF weight.e >= 4
    THEN RoundHalfEven(weight.n, weight.d * Pow10(weight.e - 4))
    ELSE RoundHalfEven(weight.n * Pow10(4 - weight.e), weight.d)

\* the weight a match stands for: n / (d * 10^e); d = 0 is the ZeroDivisionError of
\* numerator / denominator
WeightOf(groups, p) ==
    LET f == WEIGHT_PATTERNS[p].conversion_factor
    IN  IF Len(groups) = 2 /\ WEIGHT_PATTERNS[p].pattern = "fraction"
        THEN [n |-> ToFloat(groups[1]).n * f.n, d |-> ToFloat(groups[2]).n, e |-> f.e]
        ELSE [n |-> ToFloat(groups[1]).n * f.n, d |-> 1, e |-> ToFloat(groups[1]).e + f.e]

\* mutant: a match with an unusable value ends the extraction
GiveUp_Fails(title_lower, p, rest) == [weight_oz |-> None, weight_extraction_failed |-> TRUE]

\* `continue`: the result comes from the patterns after p
GiveUp(title_lower, p, rest) == rest

\* the loop "for pattern, conversion_factor in WEIGHT_PATTERNS" from pattern p on
RECURSIVE ExtractFrom(_, _)
ExtractFrom(title_lower, p) ==
    IF p > Len(WEIGHT_PATTERNS)
    THEN \* No valid weight found
         [weight_oz |-> None, weight_extraction_failed |-> TRUE]
    ELSE LET match == Search(WEIGHT_PATTERNS[p].pattern, title_lower)
         IN  IF match = None THEN ExtractFrom(title_lower, p + 1)
             ELSE IF WeightOf(Val(match), p).d = 0 \/ Invalid(WeightOf(Val(match), p))
             THEN GiveUp(title_lower, p, ExtractFrom(title_lower, p + 1))
             ELSE [weight_oz |-> Some(Round4(WeightOf(Val(match), p))),
                   weight_extraction_failed |-> FALSE]

\* EbayScraper._extract_weight(title): (weight_oz, extraction_failed)
ExtractWeightOf(title) == ExtractFrom(Lower(title), 1)

\* EbayScraper._extract_weight, called on its own
ExtractWeight(title) ==
    /\ result' = [NoResult EXCEPT !.op = "_extract_weight", !.args = <<title>>,
                                  !.outcome = "returned",
                                  !.value = Some(ExtractWeightOf(title))]
    /\ UNCHANGED <<now, tables_created, rate_limit_tracker, last_call_time, spot_prices,
                   api_call_logs, period, granted_at, listings, callers>>

-----------------------------------------------------------------------------
(* Titles: the three titles of the specification's examples, and every title of up to
   MaxWords words in which no two numbers are adjacent *)

NumberWords ==
    {<<"0">>, <<"1">>, <<"1", "0">>, <<"2", "0", "0", "0">>, <<"3", "1", ".", "1">>,
     <<"0", ".", "0", "0", "0", "0", "1">>}

UnitWords ==
    {<<"/">>, <<" ">>, <<"o", "z">>, <<"g">>, <<"t", "r", "o", "y">>,
     <<"O", "u", "n", "c", "e">>}

TitleWords == NumberWords \cup UnitWords

RECURSIVE Flatten(_)
Flatten(ws) == IF ws = <<>> THEN <<>> ELSE Head(ws) \o Flatten(Tail(ws))

WordTitles ==
    {Flatten(ws) : ws \in
        {w \in UNION {[1..k -> TitleWords] : k \in 0..MaxWords} :
            \A i \in 1..(Len(w) - 1) : ~(w[i] \in NumberWords /\ w[i + 1] \in NumberWords)}}

FractionTitle ==
    <<"1", "/", "1", "0", " ", "o", "z", " ", "g", "o", "l", "d", " ",
      "e", "a", "g", "l", "e">>
GramTitle ==
    <<"3", "1", ".", "1", "g", " ", "s", "i", "l", "v", "e", "r", " ", "b", "a", "r">>
NoWeightTitle ==
    <<"n", "o", " ", "w", "e", "i", "g", "h", "t", " ", "h", "e", "r", "e">>

Titles == WordTitles \cup {FractionTitle, GramTitle, NoWeightTitle}

InitWeight == InitRequest

\* the extraction is a pure function of the title: one call is observed
NextWeight == result = NoResult /\ \E title \in Titles : ExtractWeight(title)

SpecWeight == InitWeight /\ [][NextWeight]_vars

-----------------------------------------------------------------------------
(* Properties of the weight extraction *)

Extracted == result.op = "_extract_weight"
ExtractedFrom(title) == Extracted /\ result.args = <<title>>

\* what _extract_weight returned
WeightOz == Val(result.value).weight_oz
WeightFailed == Val(result.value).weight_extraction_failed

\* pattern p matches the lower-cased title and its match converts to a weight in
\* (0, 1000]
Qualifies(s, p) ==
    /\ Search(WEIGHT_PATTERNS[p].pattern, s) # None
    /\ WeightOf(Val(Search(WEIGHT_PATTERNS[p].pattern, s)), p).d # 0
    /\ ~Invalid(WeightOf(Val(Search(WEIGHT_PATTERNS[p].pattern, s)), p))

\* the rounded weight of the match of pattern p
RoundedWeight(s, p) == Round4(WeightOf(Val(Search(WEIGHT_PATTERNS[p].pattern, s)), p))

(* C17: the title "1/10 oz gold eagle" yields a weight of about 0.1 (numerator /
   denominator), "31.1g silver bar" yields about 0.9999 (grams x 0.0321507), and
   "no weight here" yields no weight with weight_extraction_failed = true *)
C17_ExampleWeights ==
    /\ ExtractedFrom(FractionTitle) => WeightOz = Some(1000) /\ ~WeightFailed
    /\ ExtractedFrom(GramTitle) => WeightOz = Some(9999) /\ ~WeightFailed
    /\ ExtractedFrom(NoWeightTitle) => WeightOz = None /\ WeightFailed

(* C18: the patterns are tried in the order ounce, fraction, gram; the result is the
   rounded weight of the first pattern that matches with a weight in (0, 1000], found
   also when an earlier pattern matched with a weight outside that range or with a
   zero denominator; when no pattern qualifies the result is no weight with the failure
   flag set; and the extraction always returns *)
C18_FirstQualifyingPattern ==
    Extracted =>
        LET s == Lower(result.args[1])
            Q == {p \in 1..Len(WEIGHT_PATTERNS) : Qualifies(s, p)}
        IN  /\ result.outcome = "returned"
            /\ Q # {} => /\ WeightOz = Some(RoundedWeight(s, Min(Q)))
                         /\ ~WeightFailed
            /\ Q = {} => WeightOz = None /\ WeightFailed

\* the ounce pattern matched a weight outside (0, 1000], and the fraction pattern gave
\* the result
C18_Witness ==
    /\ Extracted
    /\ LET s == Lower(result.args[1])
       IN  /\ Search("ounce", s) # None
           /\ ~Qualifies(s, 1)
           /\ Qualifies(s, 2)
           /\ WeightOz = Some(RoundedWeight(s, 2))
           /\ WeightOz # Some(0)

-----------------------------------------------------------------------------
(* Parsing of one eBay item (app/scrapers/ebay.py) *)

\* `w in s` for strings
Contains(s, w) == \E i \in 1..Len(s) : StartsWith(s, i, w)

Gold == <<"g", "o", "l", "d">>
Silver == <<"s", "i", "l", "v", "e", "r">>

\* EbayScraper._determine_metal_type(keyword, title)
DetermineMetalType(keyword, title) ==
    LET keyword_lower == Lower(keyword)
        title_lower == Lower(title)
    IN  IF Contains(keyword_lower, Gold) \/ Contains(title_lower, Gold) THEN "gold"
        ELSE IF Contains(keyword_lower, Silver) \/ Contains(title_lower, Silver)
        THEN "silver"
        ELSE IF Contains(keyword_lower, Gold) THEN "gold" ELSE "silver"

\* an item of the Finding API response: itemId, title, viewItemURL and the __value__ of
\* sellingStatus.currentPrice, each None when the key is missing; price_is_number tells
\* whether float() accepts the __value__
RawItem(itemId, title, price, url) ==
    [itemId |-> itemId, title |-> title, price |-> price, url |-> url,
     price_is_number |-> TRUE]

\* float(price_info.get('__value__', 0))
PriceOf(item) == IF item.price = None THEN 0 ELSE Val(item.price)

\* mutant: a price of 0 is accepted
HasAllFields_AnyPrice(item) ==
    /\ item.itemId # None /\ Val(item.itemId) # ""
    /\ item.title # None /\ Val(item.title) # <<>>
    /\ item.url # None /\ Val(item.url) # ""

\* all([item_id, title, price, url])
HasAllFields(item) ==
    /\ item.itemId # None /\ Val(item.itemId) # ""
    /\ item.title # None /\ Val(item.title) # <<>>
    /\ PriceOf(item) # 0
    /\ item.url # None /\ Val(item.url) # ""

\* EbayScraper._parse_item(item, keyword): the standardized listing, or None
ParseItemOf(item, keyword) ==
    IF ~item.price_is_number
    THEN \* float() raises ValueError: "Error parsing item", return None
         None
    ELSE IF ~HasAllFields(item) THEN None
    ELSE Some([source |-> "ebay",
               external_id |-> Val(item.itemId),
               title |-> Val(item.title),
               price |-> PriceOf(item),
               metal_type |-> DetermineMetalType(keyword, Val(item.title)),
               weight_oz |-> ExtractWeightOf(Val(item.title)).weight_oz,
               weight_extraction_failed |->
                    ExtractWeightOf(Val(item.title)).weight_extraction_failed,
               url |-> Val(item.url)])

\* EbayScraper._parse_item, called on its own
ParseItem(item, keyword) ==
    /\ result' = [NoResult EXCEPT !.op = "_parse_item", !.args = <<item, keyword>>,
                                  !.outcome = "returned",
                                  !.value = ParseItemOf(item, keyword)]
    /\ UNCHANGED <<now, tables_created, rate_limit_tracker, last_call_time, spot_prices,
                   api_call_logs, period, granted_at, listings, callers>>

-----------------------------------------------------------------------------
(* Items parsed one at a time: every title in a complete item, and every combination of
   missing and empty fields *)

GoldBullion == <<"g", "o", "l", "d", " ", "b", "u", "l", "l", "i", "o", "n">>
SilverEagle == <<"s", "i", "l", "v", "e", "r", " ", "e", "a", "g", "l", "e">>
Keywords == {GoldBullion, SilverEagle}

ItemIds == {"A", "B"}
ItemPrices == {50, 1700}

CompleteItems ==
    {RawItem(Some("A"), Some(t), Some(1700), Some("url")) : t \in Titles \ {<<>>}}

PartialItems ==
    {RawItem(i, t, p, u) :
        i \in {None, Some(""), Some("A")},
        t \in {None, Some(<<>>), Some(GramTitle)},
        p \in {None, Some(0), Some(1700)},
        u \in {None, Some(""), Some("url")}}

\* items whose price is not a number
BadPriceItems ==
    {[RawItem(Some("A"), Some(GramTitle), Some(0), u) EXCEPT !.price_is_number = FALSE] :
        u \in {None, Some("url")}}

InitParse == InitRequest

NextParse ==
    /\ result = NoResult
    /\ \E item \in CompleteItems \cup PartialItems \cup BadPriceItems,
          keyword \in Keywords :
            ParseItem(item, keyword)

SpecParse == InitParse /\ [][NextParse]_vars

Parsed == result.op = "_parse_item" /\ result.value # None

(* C19: every listing produced by _parse_item either has a weight that is strictly
   positive and at most 1000 ounces (also after the rounding to 4 decimals) with
   weight_extraction_failed = false, or has no weight with weight_extraction_failed =
   true *)
C19_WeightOrFlag ==
    Parsed =>
        LET listing == Val(result.value)
        IN  \/ /\ listing.weight_oz # None
               /\ Val(listing.weight_oz) > 0
               /\ Val(listing.weight_oz) <= 1000 * 10000
               /\ ~listing.weight_extraction_failed
            \/ /\ listing.weight_oz = None
               /\ listing.weight_extraction_failed

-----------------------------------------------------------------------------
(* EbayScraper.scrape (app/scrapers/ebay.py): one quota check, one request and one parse
   per search term, then the deduplication *)

\* history: a call made within a larger operation. call is "search_term" (an iteration
\* of scrape's loop begins, of = "ebay"), "get_or_fetch_price" (of = the metal),
\* "check_and_increment" (of = the api name, allowed = it returned) or "http" (one
\* requests.get, of = the api name)
Call(call, of, allowed) == [call |-> call, of |-> of, allowed |-> allowed]

\* the state that the operations composed of several calls read and write, and the calls
\* the operation has made so far
World ==
    [now |-> now, rate_limit_tracker |-> rate_limit_tracker,
     last_call_time |-> last_call_time, period |-> period, granted_at |-> granted_at,
     api_call_logs |-> api_call_logs, spot_prices |-> spot_prices, listings |-> listings,
     calls |-> <<>>]

\* RateLimiter.check_and_increment(api_name) within a larger operation, from world w:
\* the world it leaves and whether it raised APIRateLimitError
CheckAndIncrementIn(api_name, w) ==
    LET i == FindTracker(w.rate_limit_tracker, api_name) IN
    IF i = 0
    THEN [world |-> [w EXCEPT !.calls = Append(@, Call("check_and_increment",
                                                       api_name, TRUE))],
          raised |-> FALSE]
    ELSE LET before == w.rate_limit_tracker[i]
             at == w.now
             tracker == RollOverIfDue(before, at)
             sleep_time == BurstSleep(w.last_call_time[api_name], TimeTime(w.now))
             clock == AddTicks(w.now, sleep_time)
         IN  IF LimitReached(tracker)
             THEN [world |->
                     [w EXCEPT !.rate_limit_tracker[i] = RowAfterRaise(before, tracker, at),
                               !.period[api_name] =
                                    NextPeriod(@, before, before, "rejected"),
                               !.calls = Append(@, Call("check_and_increment",
                                                        api_name, FALSE))],
                   raised |-> TRUE]
             ELSE [world |->
                     [w EXCEPT !.now = clock,
                               !.rate_limit_tracker[i] =
                                    [CountCall(tracker) EXCEPT !.last_call_at = Some(at)],
                               !.last_call_time[api_name] = Some(TimeTime(clock)),
                               !.period[api_name] =
                                    NextPeriod(@, before, tracker, "granted"),
                               !.granted_at[api_name] = Some(TimeTime(clock)),
                               !.calls = Append(@, Call("check_and_increment",
                                                        api_name, TRUE))],
                   raised |-> FALSE]

\* EbayScraper._parse_ebay_response(data, keyword): the listings of the items that
\* _parse_item does not skip, in the order of the items
RECURSIVE ParseEbayResponse(_, _)
ParseEbayResponse(items, keyword) ==
    IF items = <<>> THEN <<>>
    ELSE LET listing == ParseItemOf(Head(items), keyword)
         IN  (IF listing = None THEN <<>> ELSE <<Val(listing)>>)
             \o ParseEbayResponse(Tail(items), keyword)

\* history: the HTTP calls among the events of a request
HttpCalls(api_name, trace) ==
    LET F[i \in 0..Len(trace)] ==
            IF i = 0 THEN <<>>
            ELSE IF trace[i].ev = "http" THEN Append(F[i - 1], Call("http", api_name, TRUE))
            ELSE F[i - 1]
    IN  F[Len(trace)]

\* EbayScraper._search_ebay(keyword) from world w: make_request, response.json() and
\* _parse_ebay_response. fetch.responses is what the HTTP calls do and fetch.body the
\* items of the response's JSON document, None when the body is not JSON
SearchEbay(keyword, fetch, w) ==
    LET run == Request("ebay", fetch.responses, AllLogged, w.now, w.api_call_logs)
        after == [w EXCEPT !.now = run.clock, !.api_call_logs = run.logs,
                           !.calls = @ \o HttpCalls("ebay", run.trace)]
    IN  IF run.outcome = "raised" \/ fetch.body = None
        THEN [world |-> after, raised |-> TRUE, listings |-> <<>>]
        ELSE [world |-> after, raised |-> FALSE,
              listings |-> ParseEbayResponse(Val(fetch.body), keyword)]

\* mutant: the search is made although the quota check raised
ScrapeTerm_SearchesAnyway(keyword, fetch, sc) ==
    LET checked == CheckAndIncrementIn("ebay",
                        [sc.world EXCEPT !.calls = Append(@, Call("search_term", "ebay",
                                                                  TRUE))])
        found == SearchEbay(keyword, fetch, checked.world)
    IN  [world |-> found.world,
         all_listings |-> sc.all_listings \o found.listings,
         failed |-> found.raised,
         terms |-> Append(sc.terms,
                          [keyword |-> keyword, allowed |-> ~checked.raised,
                           searched |-> TRUE, failed |-> found.raised,
                           listings |-> found.listings])]

\* the body of "for term in search_terms": a failure of the quota check or of the search
\* is logged and the term adds nothing
ScrapeTerm(keyword, fetch, sc) ==
    LET checked == CheckAndIncrementIn("ebay",
                        [sc.world EXCEPT !.calls = Append(@, Call("search_term", "ebay",
                                                                  TRUE))])
    IN  IF checked.raised
        THEN [sc EXCEPT !.world = checked.world,
                        !.failed = TRUE,
                        !.terms = Append(@, [keyword |-> keyword, allowed |-> FALSE,
                                             searched |-> FALSE, failed |-> TRUE,
                                             listings |-> <<>>])]
        ELSE LET found == SearchEbay(keyword, fetch, checked.world)
             IN  [world |-> found.world,
                  all_listings |-> sc.all_listings \o found.listings,
                  failed |-> found.raised,
                  terms |-> Append(sc.terms,
                                [keyword |-> keyword, allowed |-> TRUE,
                                 searched |-> TRUE, failed |-> found.raised,
                                 listings |-> found.listings])]

\* mutant: a failed term ends the loop
NextTerm_Stops(search_terms, k, failed) ==
    IF failed THEN Len(search_terms) + 1 ELSE k + 1

\* "Continue with other search terms": the term after term k, failed or not
NextTerm(search_terms, k, failed) == k + 1

\* the loop over search_terms from term k on
RECURSIVE ScrapeTerms(_, _, _, _)
ScrapeTerms(search_terms, fetches, k, sc) ==
    IF k > Len(search_terms) THEN sc
    ELSE CHOOSE done \in
            {ScrapeTerms(search_terms, fetches, NextTerm(search_terms, k, next.failed),
                         next) :
                next \in {ScrapeTerm(search_terms[k], fetches[k], sc)}} : TRUE

\* the positions of all_listings that hold the last listing of their external_id
LastOfId(all_listings) ==
    {i \in 1..Len(all_listings) :
        \A j \in (i + 1)..Len(all_listings) :
            all_listings[j].external_id # all_listings[i].external_id}

\* mutant: the first listing of every external_id is kept
Dedup_FirstWins(all_listings) ==
    LET IsFirst(i) == \A j \in 1..(i - 1) :
                        all_listings[j].external_id # all_listings[i].external_id
        F[i \in 0..Len(all_listings)] ==
            IF i = 0 THEN <<>>
            ELSE IF IsFirst(i) THEN Append(F[i - 1], all_listings[i]) ELSE F[i - 1]
    IN  F[Len(all_listings)]

\* list({listing['external_id']: listing for listing in all_listings}.values()): a key
\* keeps the place of its first listing and the value of its last one
Dedup(all_listings) ==
    LET IsFirst(i) == \A j \in 1..(i - 1) :
                        all_listings[j].external_id # all_listings[i].external_id
        Last(i) == CHOOSE j \in LastOfId(all_listings) :
                        all_listings[j].external_id = all_listings[i].external_id
        F[i \in 0..Len(all_listings)] ==
            IF i = 0 THEN <<>>
            ELSE IF IsFirst(i) THEN Append(F[i - 1], all_listings[Last(i)]) ELSE F[i - 1]
    IN  F[Len(all_listings)]

\* EbayScraper.scrape(search_terms): fetches[k] is what eBay does for term k
Scrape(search_terms, fetches) ==
    /\ tables_created
    /\ \E sc \in {ScrapeTerms(search_terms, fetches, 1,
                              [world |-> World, all_listings |-> <<>>,
                               failed |-> FALSE, terms |-> <<>>])} :
           /\ now' = sc.world.now
           /\ rate_limit_tracker' = sc.world.rate_limit_tracker
           /\ last_call_time' = sc.world.last_call_time
           /\ period' = sc.world.period
           /\ granted_at' = sc.world.granted_at
           /\ api_call_logs' = sc.world.api_call_logs
           /\ result' = [NoResult EXCEPT !.op = "scrape", !.api_name = "ebay",
                                         !.outcome = "returned",
                                         !.args = <<search_terms, fetches>>,
                                         !.trace = sc.all_listings,
                                         !.terms = sc.terms,
                                         !.calls = sc.world.calls,
                                         !.value = Some(Dedup(sc.all_listings))]
    /\ UNCHANGED <<tables_created, spot_prices, listings, callers>>

-----------------------------------------------------------------------------
(* One scrape of two search terms; before it the eBay quota has been used 0 to
   EBAY_DAILY_LIMIT times *)

SearchTerms == <<GoldBullion, SilverEagle>>

\* the items eBay returns: two ids at two prices, and an item without id
ScrapeItems ==
    {RawItem(Some(i), Some(GramTitle), Some(p), Some("url")) :
        i \in ItemIds, p \in ItemPrices}
    \cup {RawItem(None, Some(GramTitle), Some(50), Some("url"))}

\* the JSON documents: up to MaxItems items, or no JSON at all
Bodies ==
    {None} \cup {Some(items) : items \in UNION {[1..k -> ScrapeItems] : k \in 0..MaxItems}}

\* what the HTTP calls of one search do: success, success after a 500, timeouts only,
\* a 404
ScrapeResponses ==
    {[k \in 1..API_RETRY_ATTEMPTS |-> [kind |-> "response", status_code |-> 200]],
     [k \in 1..API_RETRY_ATTEMPTS |->
        [kind |-> "response", status_code |-> IF k = 1 THEN 500 ELSE 200]],
     [k \in 1..API_RETRY_ATTEMPTS |-> [kind |-> "timeout", status_code |-> 0]],
     [k \in 1..API_RETRY_ATTEMPTS |-> [kind |-> "response", status_code |-> 404]]}

Fetches == [responses : ScrapeResponses, body : Bodies]

\* the rate limiter after `used` granted calls made one hour before the scrape
RECURSIVE CheckedTimes(_, _)
CheckedTimes(used, w) ==
    IF used = 0 THEN w
    ELSE CHOOSE done \in
            {CheckedTimes(used - 1, next) :
                next \in {CheckAndIncrementIn("ebay", w).world}} : TRUE

EarlierClock == SubTicks(RequestStartClock, TicksPerHour)

InitScrape ==
    \E used \in 0..EBAY_DAILY_LIMIT :
        \E w \in {CheckedTimes(used,
                    [now |-> EarlierClock,
                     rate_limit_tracker |-> <<NewEbayTracker(EarlierClock),
                                              NewMetalsTracker(EarlierClock)>>,
                     last_call_time |-> [a \in ApiNames |-> None],
                     period |-> [a \in ApiNames |-> NoPeriod],
                     granted_at |-> [a \in ApiNames |-> None],
                     api_call_logs |-> <<>>, calls |-> <<>>])} :
            /\ now = RequestStartClock
            /\ tables_created = TRUE
            /\ rate_limit_tracker = w.rate_limit_tracker
            /\ last_call_time = w.last_call_time
            /\ spot_prices = <<>>
            /\ api_call_logs = <<>>
            /\ listings = <<>>
            /\ callers = NoCallers
            /\ period = w.period
            /\ granted_at = w.granted_at
            /\ result = NoResult

NextScrape ==
    /\ result = NoResult
    /\ \E fetches \in [1..Len(SearchTerms) -> Fetches] : Scrape(SearchTerms, fetches)

SpecScrape == InitScrape /\ [][NextScrape]_vars

Scraped == result.op = "scrape"

(* C20: the list scrape returns holds at most one listing per external_id, holds one
   for every external_id among the listings parsed for the search terms, and each
   returned listing is the last listing parsed with its external_id, in the order of the
   search terms and of the items within a response *)
C20_DedupLastWins ==
    Scraped =>
        LET all_listings == result.trace
            unique == Val(result.value)
        IN  /\ \A i \in 1..Len(unique) : \A j \in 1..Len(unique) :
                    unique[i].external_id = unique[j].external_id => i = j
            /\ \A i \in 1..Len(all_listings) : \E j \in 1..Len(unique) :
                    unique[j].external_id = all_listings[i].external_id
            /\ \A j \in 1..Len(unique) : \E i \in 1..Len(all_listings) :
                    /\ unique[j] = all_listings[i]
                    /\ \A k \in (i + 1)..Len(all_listings) :
                            all_listings[k].external_id # unique[j].external_id

\* the same external_id was parsed for both search terms with different prices, and
\* the listing returned is the one of the second term
C20_Witness ==
    /\ Scraped
    /\ Len(result.trace) = 2
    /\ result.trace[1].external_id = result.trace[2].external_id
    /\ result.trace[1].price # result.trace[2].price
    /\ result.trace[1].metal_type = "gold"
    /\ Val(result.value) = <<result.trace[2]>>
    /\ result.trace[2].metal_type = "silver"

\* the quota check of a term passed, its request returned a response and the response
\* was a JSON document
TermSucceeded(t, fetch) ==
    /\ t.allowed
    /\ \E k \in 1..API_RETRY_ATTEMPTS :
            /\ IsSuccess(fetch.responses[k])
            /\ \A j \in 1..(k - 1) : IsTransient(fetch.responses[j])
    /\ fetch.body # None

RECURSIVE ListingsOf(_)
ListingsOf(terms) ==
    IF terms = <<>> THEN <<>> ELSE Head(terms).listings \o ListingsOf(Tail(terms))

(* C21: scrape always returns; every search term is attempted, in order, whatever
   happened to the terms before it; a term whose quota check, request or JSON decoding
   failed adds no listing and is not searched after a rejected quota check; a term that
   succeeded adds the listings parsed from its response; and the deduplicated listings of
   the terms that succeeded are returned *)
C21_PartialResults ==
    Scraped =>
        LET search_terms == result.args[1]
            fetches == result.args[2]
            terms == result.terms
        IN  /\ result.outcome = "returned"
            /\ Len(terms) = Len(search_terms)
            /\ \A k \in 1..Len(terms) :
                /\ terms[k].keyword = search_terms[k]
                /\ terms[k].searched = terms[k].allowed
                /\ terms[k].failed = ~TermSucceeded(terms[k], fetches[k])
                /\ terms[k].failed => terms[k].listings = <<>>
                /\ ~terms[k].failed =>
                        terms[k].listings =
                            ParseEbayResponse(Val(fetches[k].body), search_terms[k])
            /\ result.trace = ListingsOf(terms)
            /\ Val(result.value) = Dedup(result.trace)

\* the first term failed in its request and the second term's listing is returned
C21_Witness ==
    /\ Scraped
    /\ result.terms[1].allowed /\ result.terms[1].failed
    /\ ~result.terms[2].failed
    /\ Len(Val(result.value)) = 1
    /\ Val(result.value) = result.terms[2].listings

ParseReturned == result.op = "_parse_item"

\* the item lacks an id, a title, a price or a url: the field is missing, is empty, or
\* the price is 0 or not a number
LacksField(item) ==
    \/ item.itemId = None \/ item.itemId = Some("")
    \/ item.title = None \/ item.title = Some(<<>>)
    \/ item.price = None \/ item.price = Some(0) \/ ~item.price_is_number
    \/ item.url = None \/ item.url = Some("")

(* C22: _parse_item always returns; for an item lacking an id, a title, a price or a url
   (missing, empty, a price of 0 or a price that is not a number) it returns None; for
   every other item it returns a listing carrying the item's id, title, price and url *)
C22_SkipOrListing ==
    ParseReturned =>
        LET item == result.args[1]
        IN  /\ result.outcome = "returned"
            /\ LacksField(item) => result.value = None
            /\ ~LacksField(item) =>
                /\ result.value # None
                /\ Val(result.value).source = "ebay"
                /\ Val(result.value).external_id = Val(item.itemId)
                /\ Val(result.value).title = Val(item.title)
                /\ Val(result.value).price = Val(item.price)
                /\ Val(result.value).url = Val(item.url)

\* an item with id, title and price but without url was skipped
C22_Witness ==
    /\ ParseReturned
    /\ result.value = None
    /\ result.args[1].itemId = Some("A")
    /\ result.args[1].title = Some(GramTitle)
    /\ result.args[1].price = Some(1700)
    /\ result.args[1].url = None

(* C23: the metal of a listing is the metal its search keyword names, whatever the title
   says (a keyword naming silver with a title containing "gold" gives silver); the
   title decides only when the keyword names no metal; letter case does not matter; and
   the metal is always gold or silver *)
C23_KeywordBeforeTitle ==
    Parsed =>
        LET keyword == Lower(result.args[2])
            title == Lower(Val(result.args[1].title))
            metal_type == Val(result.value).metal_type
        IN  /\ metal_type \in MetalTypes
            /\ Contains(keyword, Gold) => metal_type = "gold"
            /\ (Contains(keyword, Silver) /\ ~Contains(keyword, Gold)) =>
                    metal_type = "silver"
            /\ (~Contains(keyword, Gold) /\ ~Contains(keyword, Silver)
                    /\ Contains(title, Gold)) => metal_type = "gold"
            /\ (~Contains(keyword, Gold) /\ ~Contains(keyword, Silver)
                    /\ ~Contains(title, Gold) /\ Contains(title, Silver)) =>
                    metal_type = "silver"

-----------------------------------------------------------------------------
(* calculate_spread and the spread step of perform_scan's listing loop (app/main.py).
   Prices are whole dollars, weights are in units of 0.0001 oz and spreads in units of
   0.01 percent *)

\* mutant: the quotient is cut off after the second decimal
RoundedPercent_Truncated(n, d) ==
    LET r0 == n % d
        r1 == (r0 * 10) % d
        r2 == (r1 * 10) % d
        r3 == (r2 * 10) % d
    IN  (n \div d) * 10000 + ((r0 * 10) \div d) * 1000 + ((r1 * 10) \div d) * 100
        + ((r2 * 10) \div d) * 10 + (r3 * 10) \div d

\* round((n / d) * 100, 2) for d > 0, in units of 0.01: the quotient n * 10^4 / d is
\* developed one decimal at a time and rounded to the nearest integer, ties to even
RoundedPercent(n, d) ==
    LET r0 == n % d
        r1 == (r0 * 10) % d
        r2 == (r1 * 10) % d
        r3 == (r2 * 10) % d
        q == (n \div d) * 10000 + ((r0 * 10) \div d) * 1000 + ((r1 * 10) \div d) * 100
             + ((r2 * 10) \div d) * 10 + (r3 * 10) \div d
        r4 == (r3 * 10) % d
    IN  IF 2 * r4 > d \/ (2 * r4 = d /\ q % 2 = 1) THEN q + 1 ELSE q

\* calculate_spread(listing_price, weight_oz, spot_price): None, or the spread
CalculateSpread(listing_price, weight_oz, spot_price) ==
    IF weight_oz = None \/ Val(weight_oz) <= 0 THEN None
    ELSE LET spot_value == Val(weight_oz) * spot_price
         IN  IF spot_value <= 0 THEN None
             ELSE Some(RoundedPercent(spot_value - listing_price * 10000, spot_value))

\* "if weight_oz and spot_prices.get(metal_type): spread = calculate_spread(...)": the
\* spread perform_scan computes for listing_data, None when it computes none
ListingSpread(listing_data, prices) ==
    IF Truthy(listing_data.weight_oz) /\ Truthy(prices[listing_data.metal_type])
    THEN CalculateSpread(listing_data.price, listing_data.weight_oz,
                         Val(prices[listing_data.metal_type]))
    ELSE None

\* mutant: a spread of exactly 0 counts as a deal too
IsDeal_OrZero(spread) == spread # None /\ Val(spread) >= 0

\* "if spread and spread > 0": the listing counts as a deal
IsDeal(spread) == Truthy(spread) /\ Val(spread) > 0

\* the spread step of the loop body applied to one listing
SpreadStep(listing_data, prices) ==
    /\ result' = [NoResult EXCEPT !.op = "spread", !.outcome = "returned",
                                  !.args = <<listing_data, prices>>,
                                  !.value = ListingSpread(listing_data, prices)]
    /\ UNCHANGED <<now, tables_created, rate_limit_tracker, last_call_time, spot_prices,
                   api_call_logs, listings, period, granted_at, callers>>

-----------------------------------------------------------------------------
(* The spread step on one listing: weights from none to 10 oz, listing prices around
   the value of the metal, spot prices absent, zero, negative and positive; spot
   prices of 30 and 32 give quotients that must be rounded, among them exact ties *)

SpreadWeights == {None, Some(0), Some(1000), Some(10000), Some(100000)}

SpreadPrices == {24, 25, 50, 1700, 2000, 2001}

SpreadSpots == {None, Some(0), Some(0 - 25), Some(30), Some(32), Some(2000)}

InitSpread == InitRequest

NextSpread ==
    /\ result = NoResult
    /\ \E weight_oz \in SpreadWeights, price \in SpreadPrices, metal_type \in MetalTypes,
          prices \in [MetalTypes -> SpreadSpots] :
            SpreadStep([price |-> price, weight_oz |-> weight_oz,
                        metal_type |-> metal_type], prices)

SpecSpread == InitSpread /\ [][NextSpread]_vars

SpreadComputed == result.op = "spread"

SpreadWeight == result.args[1].weight_oz

SpreadSpot == result.args[2][result.args[1].metal_type]

RECURSIVE GCD(_, _)
GCD(a, b) == IF b = 0 THEN a ELSE GCD(b, a % b)

\* twice the distance between spread (in 0.01 percent) and the exact quotient
\* (weight * spot - price) / (weight * spot) * 100, as a multiple of 1 / d, where
\* n / d is the quotient in lowest terms
SpreadError(spread) ==
    LET value == Val(SpreadWeight) * Val(SpreadSpot)
        diff == value - result.args[1].price * 10000
        g == GCD(value, IF diff < 0 THEN 0 - diff ELSE diff)
        n == diff \div g
        d == value \div g
        e == n * 10000 - spread * d
    IN  [twice |-> 2 * (IF e < 0 THEN 0 - e ELSE e), d |-> d]

(* C24: for a listing with a known weight and a known spot price of its metal, whose
   product is positive, the spread the scan computes is
   ((weight * spot - price) / (weight * spot)) * 100 rounded to 2 decimals, exact ties
   going to the even neighbour; when the weight is absent, the spot price is absent or
   weight * spot <= 0, no spread is computed *)
C24_SpreadFormula ==
    SpreadComputed =>
        IF /\ SpreadWeight # None
           /\ SpreadSpot # None
           /\ Val(SpreadWeight) * Val(SpreadSpot) > 0
        THEN /\ result.value # None
             /\ LET err == SpreadError(Val(result.value))
                IN  \/ err.twice < err.d
                    \/ err.twice = err.d /\ Val(result.value) % 2 = 0
        ELSE result.value = None

\* the spec's example: weight 1 oz, price 1700, spot price 2000 give 15.00 percent
C24_Witness ==
    /\ SpreadComputed
    /\ SpreadWeight = Some(10000)
    /\ result.args[1].price = 1700
    /\ SpreadSpot = Some(2000)
    /\ result.value = Some(1500)

-----------------------------------------------------------------------------
(* perform_scan (app/main.py): the spot prices of both metals, one scrape, and one
   upsert with its spread per listing. A commit always ends in the committed or in the
   rolled-back state, and db.rollback() itself does not fail *)

\* mutant: a handler catches the exceptions of its own class only, not of subclasses
Catches_OwnClassOnly(handler, exc) == handler = exc

\* "except <handler>" catches exc: APIRateLimitError and APIConnectionError derive from
\* Exception through MetalsScannerException, as the errors of the database and of the
\* JSON decoder do
Catches(handler, exc) == handler = "Exception" \/ handler = exc

\* rates are counted in 1/60000 oz per dollar and prices in dollars; the rates of the
\* model divide RateUnit, so that 1.0 / rate is a whole number of dollars
RateUnit == 60 * 1000

\* the float inf, which response.json() yields for a number such as 1e999
Infinity == RateUnit + 1

\* "1.0 / rate"
Reciprocal(rate) == IF rate = Infinity THEN 0 ELSE RateUnit \div rate

\* what metals-api does for one requests.get: the outcome r of the call and, for a
\* response, the fields 'success' and 'rates'[symbol] of its JSON document (rate None:
\* the symbol is missing)
PriceAnswer(r, success, rate) == [r |-> r, success |-> success, rate |-> rate]

\* lines 92-119 of _fetch_price on the answer: the price returned, None when an
\* exception is raised instead
PricePerOz(answer) ==
    IF answer.r.kind # "response" \/ answer.r.status_code >= 400
    THEN None   \* requests.get or raise_for_status() raised
    ELSE IF ~answer.success THEN None
    ELSE IF ~Truthy(answer.rate) \/ Val(answer.rate) <= 0 THEN None
    ELSE Some(Reciprocal(Val(answer.rate)))

\* the class of the exception _fetch_price raises on the answer: a RequestException
\* becomes APIConnectionError, another exception of requests.get passes unchanged
PriceError(answer) ==
    IF answer.r.kind = "other" THEN "Exception" ELSE "APIConnectionError"

\* MetalsAPIClient._fetch_price(symbol) from world w: the quota check, then one
\* requests.get without retry or audit. http is what metals-api does for it
FetchPrice(http, w) ==
    LET checked == CheckAndIncrementIn("metals-api", w)
    IN  IF checked.raised
        THEN [world |-> checked.world, raised |-> TRUE, exc |-> "APIRateLimitError",
              price_per_oz |-> None]
        ELSE [world |-> [checked.world EXCEPT
                            !.calls = Append(@, Call("http", "metals-api", TRUE))],
              raised |-> PricePerOz(http) = None,
              exc |-> PriceError(http), price_per_oz |-> PricePerOz(http)]

\* the row ".order_by(desc(fetched_at)).first()" returns when several rows of the metal
\* share the greatest fetched_at: pick says which
LatestPrice(table, metal_type, pick) ==
    LET latest == LatestPrices(table, metal_type)
    IN  IF latest = {} THEN None
        ELSE IF pick = "lowest id" THEN Some(table[Min(latest)])
        ELSE Some(table[CHOOSE i \in latest : \A j \in latest : j <= i])

\* get_or_fetch_price after fetch_func: store_price and the dict returned, or the
\* fallback to the cached dict, or "raise"
StoreFetched(metal_type, store_ok, cached, fetched) ==
    IF ~fetched.raised /\ store_ok
    THEN [world |-> [fetched.world EXCEPT !.spot_prices =
                        StorePrice(@, metal_type, Val(fetched.price_per_oz),
                                   fetched.world.now)],
          raised |-> FALSE, exc |-> "", fetch_calls |-> 1,
          price_per_oz |-> fetched.price_per_oz]
    ELSE IF FallbackTo(cached)
    THEN [world |-> fetched.world, raised |-> FALSE, exc |-> "", fetch_calls |-> 1,
          price_per_oz |-> Some(Val(cached).price_per_oz)]
    ELSE \* "raise": the exception of fetch_func or of store_price
         [world |-> fetched.world, raised |-> TRUE,
          exc |-> IF fetched.raised THEN fetched.exc ELSE "SQLAlchemyError",
          fetch_calls |-> 1, price_per_oz |-> None]

\* PriceCache.get_or_fetch_price(metal_type, fetch_func) from world w, with
\* fetch_func = _fetch_price: the world it leaves, whether it raised and the
\* price_per_oz of the dict it returned
GetOrFetchPriceIn(metal_type, http, store_ok, pick, w) ==
    LET latest_price == LatestPrice(w.spot_prices, metal_type, pick)
        cached == IF latest_price = None THEN None
                  ELSE Some(CachedPrice(Val(latest_price), w.now))
        called == [w EXCEPT !.calls = Append(@, Call("get_or_fetch_price", metal_type,
                                                     TRUE))]
    IN  IF cached # None /\ ~Val(cached).is_stale
        THEN [world |-> called, raised |-> FALSE, exc |-> "", fetch_calls |-> 0,
              price_per_oz |-> Some(Val(cached).price_per_oz)]
        ELSE CHOOSE done \in
                {StoreFetched(metal_type, store_ok, cached, fetched) :
                    fetched \in {FetchPrice(http, called)}} : TRUE

\* mutant: when one metal's price is missing, no price is reported at all
SpotPrices_AllOrNothing(gold, silver) ==
    [world |-> silver.world,
     escaped |-> None,
     prices |-> [m \in MetalTypes |->
                    IF gold.price_per_oz = None \/ silver.price_per_oz = None THEN None
                    ELSE IF m = "gold" THEN gold.price_per_oz ELSE silver.price_per_oz],
     fetch_calls |-> [m \in MetalTypes |->
                    IF m = "gold" THEN gold.fetch_calls ELSE silver.fetch_calls]]

\* the dict get_spot_prices returns after both metals: a metal whose
\* get_or_fetch_price raised has the price None by "except Exception". escaped is the
\* exception that leaves get_spot_prices, None when there is none
SpotPrices(gold, silver) ==
    [world |-> silver.world,
     escaped |-> IF silver.raised /\ ~Catches("Exception", silver.exc)
                 THEN Some(silver.exc) ELSE None,
     prices |-> [m \in MetalTypes |->
                    IF m = "gold" THEN gold.price_per_oz ELSE silver.price_per_oz],
     fetch_calls |-> [m \in MetalTypes |->
                    IF m = "gold" THEN gold.fetch_calls ELSE silver.fetch_calls]]

\* get_spot_prices after the gold price: the silver price
SilverPrice(https, store_ok, pick, gold) ==
    IF gold.raised /\ ~Catches("Exception", gold.exc)
    THEN [world |-> gold.world, escaped |-> Some(gold.exc),
          prices |-> [m \in MetalTypes |-> None],
          fetch_calls |-> [m \in MetalTypes |->
                            IF m = "gold" THEN gold.fetch_calls ELSE 0]]
    ELSE CHOOSE done \in
            {SpotPrices(gold, silver) :
                silver \in {GetOrFetchPriceIn("silver", https["silver"],
                                              store_ok["silver"], pick, gold.world)}} :
            TRUE

\* MetalsAPIClient.get_spot_prices() from world w: gold, then silver
GetSpotPrices(https, store_ok, pick, w) ==
    CHOOSE done \in
        {SilverPrice(https, store_ok, pick, gold) :
            gold \in {GetOrFetchPriceIn("gold", https["gold"], store_ok["gold"],
                                        pick, w)}} : TRUE

\* EbayScraper.scrape(search_terms) from world w
ScrapeIn(search_terms, fetches, w) ==
    CHOOSE done \in
        {[world |-> sc.world, listings |-> Dedup(sc.all_listings), terms |-> sc.terms] :
            sc \in {ScrapeTerms(search_terms, fetches, 1,
                                [world |-> w, all_listings |-> <<>>,
                                 failed |-> FALSE, terms |-> <<>>])}} : TRUE

\* "db.query(Listing).filter(Listing.external_id == ...).first()": the position of the
\* row, 0 when there is none
FindListing(table, external_id) ==
    IF \E i \in 1..Len(table) : table[i].external_id = external_id
    THEN CHOOSE i \in 1..Len(table) :
            /\ table[i].external_id = external_id
            /\ \A j \in 1..(i - 1) : table[j].external_id # external_id
    ELSE 0

\* Listing(**listing_data): fetched_at defaults to the time of the insert and
\* spread_percentage to NULL
Listing(listing_data, at) ==
    [source |-> listing_data.source,
     external_id |-> listing_data.external_id,
     title |-> listing_data.title,
     price |-> listing_data.price,
     metal_type |-> listing_data.metal_type,
     weight_oz |-> listing_data.weight_oz,
     weight_extraction_failed |-> listing_data.weight_extraction_failed,
     url |-> listing_data.url,
     fetched_at |-> at,
     spread_percentage |-> None]

\* mutant: a refresh clears the spread of the row
Refreshed_Cleared(existing, listing_data, at) ==
    [existing EXCEPT !.price = listing_data.price, !.fetched_at = at,
                     !.spread_percentage = None]

\* mutant: an existing row is overwritten by the whole listing
Refreshed_Whole(existing, listing_data, at) ==
    [Listing(listing_data, at) EXCEPT !.spread_percentage = existing.spread_percentage]

\* "existing.price = listing_data['price']; existing.fetched_at = datetime.utcnow()"
Refreshed(existing, listing_data, at) ==
    [existing EXCEPT !.price = listing_data.price, !.fetched_at = at]

\* the body of "for listing_data in listings" on the scan sn. failure says where the
\* body raises an error of the database: at the query, at the commit, or nowhere.
\* "except Exception" records the error and rolls the listing back; an exception it does
\* not catch leaves the loop (sn.escaped)
ProcessListing(listing_data, prices, failure, sn) ==
    LET table == sn.world.listings
        i == FindListing(table, listing_data.external_id)
        existing == IF i # 0 THEN Refreshed(table[i], listing_data, sn.world.now)
                    ELSE Listing(listing_data, sn.world.now)
        computed == /\ failure # "query"
                    /\ Truthy(listing_data.weight_oz)
                    /\ Truthy(prices[listing_data.metal_type])
        spread == IF computed THEN ListingSpread(listing_data, prices) ELSE None
        row == IF computed THEN [existing EXCEPT !.spread_percentage = spread]
               ELSE existing
        deals_found == IF computed /\ IsDeal(spread) THEN sn.deals_found + 1
                       ELSE sn.deals_found
        step == [listing_data |-> listing_data,
                 found |-> failure # "query" /\ i # 0,
                 spread |-> spread, computed |-> computed,
                 committed |-> failure = "none"]
    IN  IF failure = "none"
        THEN [sn EXCEPT !.world.listings =
                            IF i # 0 THEN [table EXCEPT ![i] = row]
                            ELSE Append(table, row),
                        !.deals_found = deals_found,
                        !.steps = Append(@, step)]
        ELSE IF Catches("Exception", "SQLAlchemyError")
        THEN \* the error is recorded and db.rollback() undoes the listing's insert or
             \* update
             [sn EXCEPT !.deals_found = deals_found,
                        !.errors = Append(@, "Listing processing error"),
                        !.steps = Append(@, step)]
        ELSE [sn EXCEPT !.deals_found = deals_found,
                        !.steps = Append(@, step),
                        !.escaped = Some("SQLAlchemyError")]

\* mutant: the first listing that fails ends the loop
NextListing_Stops(k, failure) == IF failure = "none" THEN k + 1 ELSE 0

\* the inner try/except: the loop goes on to the next listing after a failure
NextListing(k, failure) == k + 1

\* the loop "for listing_data in listings" from listing k on
RECURSIVE ProcessListings(_, _, _, _, _)
ProcessListings(found, prices, failures, k, sn) ==
    IF k = 0 \/ k > Len(found) \/ sn.escaped # None THEN sn
    ELSE CHOOSE done \in
            {ProcessListings(found, prices, failures, NextListing(k, failures[k]), next) :
                next \in {ProcessListing(found[k], prices, failures[k], sn)}} : TRUE

\* the inputs of one scan: what the price API yields per metal, whether store_price
\* commits, which latest price row a tie yields, what eBay does per search term, and
\* where the processing of the k-th listing fails
ScanInput(https, store_ok, pick, search_terms, fetches, failures) ==
    [https |-> https, store_ok |-> store_ok, pick |-> pick,
     search_terms |-> search_terms, fetches |-> fetches, failures |-> failures]

\* mutant: success is reported whenever a listing was found
Success_AnyListing(errors, listings_found) == listings_found > 0

\* "success": len(errors) == 0
Success(errors, listings_found) == Len(errors) = 0

\* the handlers of perform_scan's outer try, in their order: the entry added to errors
\* for the exception exc, None when no handler catches it
OuterError(exc) ==
    IF Catches("APIRateLimitError", exc) THEN Some("Rate limit exceeded")
    ELSE IF Catches("APIConnectionError", exc) THEN Some("API connection failed")
    ELSE IF Catches("Exception", exc) THEN Some("Unexpected error")
    ELSE None

\* the end of perform_scan: an exception that left the try body meets the outer handlers,
\* and the dict is returned unless none of them catches it (propagated)
ScanReturn(start_time, spot, scraped, sn) ==
    LET caught == IF sn.escaped = None THEN None ELSE OuterError(Val(sn.escaped))
        errors == IF caught = None THEN sn.errors ELSE Append(sn.errors, Val(caught))
    IN  [world |-> sn.world,
         propagated |-> sn.escaped # None /\ caught = None,
         scan |-> [success |-> Success(errors, Len(scraped.listings)),
                   listings_found |-> Len(scraped.listings),
                   deals_found |-> sn.deals_found,
                   errors |-> errors,
                   started_at |-> start_time,
                   completed_at |-> sn.world.now],
         spot_prices |-> spot.prices,
         fetch_calls |-> spot.fetch_calls,
         listings |-> scraped.listings,
         terms |-> scraped.terms,
         steps |-> sn.steps]

\* perform_scan after scrape: the listing loop
ScanListingsFrom(in, start_time, spot, scraped) ==
    CHOOSE done \in
        {ScanReturn(start_time, spot, scraped, sn) :
            sn \in {ProcessListings(scraped.listings, spot.prices, in.failures, 1,
                        [world |-> scraped.world, deals_found |-> 0,
                         errors |-> IF \/ ~Truthy(spot.prices["gold"])
                                       \/ ~Truthy(spot.prices["silver"])
                                    THEN <<"Failed to fetch spot prices">> ELSE <<>>,
                         steps |-> <<>>, escaped |-> None])}} : TRUE

\* perform_scan after get_spot_prices: the scrape, unless an exception left
\* get_spot_prices
ScanFrom(in, start_time, spot) ==
    IF spot.escaped # None
    THEN ScanReturn(start_time, spot,
                    [world |-> spot.world, listings |-> <<>>, terms |-> <<>>],
                    [world |-> spot.world, deals_found |-> 0, errors |-> <<>>,
                     steps |-> <<>>, escaped |-> spot.escaped])
    ELSE CHOOSE done \in
            {ScanListingsFrom(in, start_time, spot, scraped) :
                scraped \in {ScrapeIn(in.search_terms, in.fetches, spot.world)}} : TRUE

\* perform_scan(db, search_terms) from world w: the world it leaves, the dict it
\* returns unless an exception leaves it (propagated), and what it did on the way
PerformScanIn(in, w) ==
    CHOOSE done \in
        {ScanFrom(in, w.now, spot) :
            spot \in {GetSpotPrices(in.https, in.store_ok, in.pick, w)}} : TRUE

\* perform_scan(db, search_terms)
PerformScan(in) ==
    /\ tables_created
    /\ \E done \in {PerformScanIn(in, World)} :
           /\ now' = done.world.now
           /\ rate_limit_tracker' = done.world.rate_limit_tracker
           /\ last_call_time' = done.world.last_call_time
           /\ period' = done.world.period
           /\ granted_at' = done.world.granted_at
           /\ api_call_logs' = done.world.api_call_logs
           /\ spot_prices' = done.world.spot_prices
           /\ listings' = done.world.listings
           /\ result' = [NoResult EXCEPT !.op = "perform_scan",
                                         !.outcome = IF done.propagated THEN "raised"
                                                     ELSE "returned",
                                         !.args = <<in, World>>,
                                         !.value = IF done.propagated THEN None
                                                   ELSE Some(done.scan),
                                         !.prices = Some(done.spot_prices),
                                         !.trace = done.steps,
                                         !.calls = done.world.calls,
                                         !.terms = done.terms]
    /\ UNCHANGED <<tables_created, callers>>

-----------------------------------------------------------------------------
(* One scan of two search terms on Friday 2025-01-03 at 12:00 UTC, in a database that
   is new or has seen one scan a day earlier. Every commit succeeds *)

MaxScanItems == 1

OunceTitle == <<"1", "o", "z", " ", "c", "o", "i", "n">>

ScanPrices == {25, 1700, 2000}

\* the items eBay returns: two ids, with and without a weight in the title
ScanItems ==
    {RawItem(Some(i), Some(t), Some(p), Some("url")) :
        i \in ItemIds, t \in {OunceTitle, NoWeightTitle}, p \in ScanPrices}

Ok200 == [k \in 1..API_RETRY_ATTEMPTS |-> [kind |-> "response", status_code |-> 200]]

NotFound404 == [k \in 1..API_RETRY_ATTEMPTS |-> [kind |-> "response", status_code |-> 404]]

\* what eBay does for one search term: a 404, or up to MaxScanItems items
ScanFetches ==
    {[responses |-> NotFound404, body |-> None]}
    \cup {[responses |-> Ok200, body |-> Some(items)] :
            items \in UNION {[1..k -> ScanItems] : k \in 0..MaxScanItems}}

\* the request to metals-api times out
TimedOut == PriceAnswer([kind |-> "timeout", status_code |-> 0], FALSE, None)

\* metals-api answers with the rate
Rated(rate) == PriceAnswer([kind |-> "response", status_code |-> 200], TRUE, Some(rate))

\* the rates of 2000 dollars an ounce of gold and of 30 dollars an ounce of silver
GoldRate == RateUnit \div 2000
SilverRate == RateUnit \div 30

\* what the price API does: a timeout, or 2000 dollars for gold and 30 for silver
ScanHttps ==
    {https \in [MetalTypes -> {TimedOut, Rated(GoldRate), Rated(SilverRate)}] :
        /\ https["gold"] \in {TimedOut, Rated(GoldRate)}
        /\ https["silver"] \in {TimedOut, Rated(SilverRate)}}

AllStored == [m \in MetalTypes |-> TRUE]

NoFailures == [k \in 1..(Len(SearchTerms) * (MaxScanItems + 1)) |-> "none"]

\* the choices a tie among the latest price rows leaves
Picks ==
    IF \E i, j \in 1..Len(spot_prices) :
            /\ i # j
            /\ spot_prices[i].metal_type = spot_prices[j].metal_type
            /\ spot_prices[i].fetched_at = spot_prices[j].fetched_at
    THEN {"lowest id", "highest id"}
    ELSE {"lowest id"}

OneItem(id, title, price) ==
    [responses |-> Ok200,
     body |-> Some(<<RawItem(Some(id), Some(title), Some(price), Some("url"))>>)]

\* the scans of the day before: all prices and a listing per term, no price at all,
\* a gold price only and a failed second term
EarlierScans ==
    {ScanInput([m \in MetalTypes |-> IF m = "gold" THEN Rated(GoldRate)
                                     ELSE Rated(SilverRate)],
               AllStored, "lowest id", SearchTerms,
               <<OneItem("A", OunceTitle, 1700), OneItem("B", NoWeightTitle, 2000)>>,
               NoFailures),
     ScanInput([m \in MetalTypes |-> TimedOut],
               AllStored, "lowest id", SearchTerms,
               <<OneItem("A", OunceTitle, 1700), OneItem("B", OunceTitle, 1700)>>,
               NoFailures),
     ScanInput([m \in MetalTypes |-> IF m = "gold" THEN Rated(GoldRate) ELSE TimedOut],
               AllStored, "lowest id", SearchTerms,
               <<OneItem("B", OunceTitle, 2000),
                 [responses |-> NotFound404, body |-> None]>>,
               NoFailures)}

ScanEarlierClock == DT(2025, 1, 2, 12 * TicksPerHour)

\* the database after init_db at the earlier time
NewWorld ==
    [now |-> ScanEarlierClock,
     rate_limit_tracker |-> <<NewEbayTracker(ScanEarlierClock),
                              NewMetalsTracker(ScanEarlierClock)>>,
     last_call_time |-> [a \in ApiNames |-> None],
     period |-> [a \in ApiNames |-> NoPeriod],
     granted_at |-> [a \in ApiNames |-> None],
     api_call_logs |-> <<>>,
     spot_prices |-> <<>>,
     listings |-> <<>>,
     calls |-> <<>>]

InitScan ==
    \E w \in {NewWorld} \cup {PerformScanIn(in, NewWorld).world : in \in EarlierScans} :
        /\ now = RequestStartClock
        /\ tables_created = TRUE
        /\ rate_limit_tracker = w.rate_limit_tracker
        /\ last_call_time = w.last_call_time
        /\ spot_prices = w.spot_prices
        /\ api_call_logs = w.api_call_logs
        /\ listings = w.listings
        /\ callers = NoCallers
        /\ period = w.period
        /\ granted_at = w.granted_at
        /\ result = NoResult

NextScan ==
    /\ result = NoResult
    /\ \E https \in ScanHttps, pick \in Picks,
          fetches \in [1..Len(SearchTerms) -> ScanFetches] :
            PerformScan(ScanInput(https, AllStored, pick, SearchTerms, fetches,
                                  NoFailures))

SpecScan == InitScan /\ [][NextScan]_vars

Scanned == result.op = "perform_scan" /\ result.outcome = "returned"

\* the dict perform_scan returned
ScanOutcome == Val(result.value)

\* the deduplicated listings of the scan, in the order of their processing
ScanListings == [k \in 1..Len(result.trace) |-> result.trace[k].listing_data]

\* the spot prices the scan obtained
ScanSpotPrices == Val(result.prices)

\* the listings for which the scan computed a spread above 0
ScanDeals ==
    {k \in 1..Len(ScanListings) :
        /\ ListingSpread(ScanListings[k], ScanSpotPrices) # None
        /\ Val(ListingSpread(ScanListings[k], ScanSpotPrices)) > 0}

(* C25: in the outcome of a scan deals_found is the number of deduplicated listings
   whose spread is defined and above 0, listings_found is the number of deduplicated
   listings, and so 0 <= deals_found <= listings_found *)
C25_DealsCounted ==
    Scanned =>
        /\ ScanListings = Dedup(ListingsOf(result.terms))
        /\ ScanOutcome.listings_found = Len(ScanListings)
        /\ ScanOutcome.deals_found = Cardinality(ScanDeals)
        /\ 0 <= ScanOutcome.deals_found
        /\ ScanOutcome.deals_found <= ScanOutcome.listings_found

\* a scan of two listings: one with a spread of exactly 0, which is no deal, and one deal
C25_Witness ==
    /\ Scanned
    /\ ScanOutcome.listings_found = 2
    /\ ScanOutcome.deals_found = 1
    /\ \E k \in 1..2 : ListingSpread(ScanListings[k], ScanSpotPrices) = Some(0)

\* the table listings before the scan
ListingsBefore == result.args[2].listings

\* the rows of table with the external_id
RowsOf(table, external_id) ==
    {i \in 1..Len(table) : table[i].external_id = external_id}

\* the external_ids of the scan's listings
ScannedIds == {ScanListings[k].external_id : k \in 1..Len(ScanListings)}

\* row is stored as the refreshed form of the row before: only price and fetched_at are
\* the listing's and the scan's, and the spread is the computed one or else the old one
IsRefreshOf(row, before, step) ==
    /\ row.external_id = before.external_id
    /\ row.source = before.source
    /\ row.title = before.title
    /\ row.metal_type = before.metal_type
    /\ row.weight_oz = before.weight_oz
    /\ row.weight_extraction_failed = before.weight_extraction_failed
    /\ row.url = before.url
    /\ row.price = step.listing_data.price
    /\ DtLE(ScanOutcome.started_at, row.fetched_at)
    /\ DtLE(row.fetched_at, ScanOutcome.completed_at)
    /\ row.spread_percentage =
            IF step.computed THEN step.spread ELSE before.spread_percentage

\* row is the full record of the listing
IsInsertOf(row, step) ==
    /\ row.external_id = step.listing_data.external_id
    /\ row.source = step.listing_data.source
    /\ row.title = step.listing_data.title
    /\ row.metal_type = step.listing_data.metal_type
    /\ row.weight_oz = step.listing_data.weight_oz
    /\ row.weight_extraction_failed = step.listing_data.weight_extraction_failed
    /\ row.url = step.listing_data.url
    /\ row.price = step.listing_data.price
    /\ DtLE(ScanOutcome.started_at, row.fetched_at)
    /\ DtLE(row.fetched_at, ScanOutcome.completed_at)
    /\ row.spread_percentage = (IF step.computed THEN step.spread ELSE None)

(* C26: the table listings never holds two rows with one external_id; after a scan, a
   listing whose external_id was stored before has its row refreshed in place (price and
   fetched_at, and the spread when one is computed) with title, metal type, weight and
   failure flag as stored; a listing with a new external_id has a full row of its own;
   and the rows of other external_ids are as before *)
C26_UpsertByExternalId ==
    /\ \A i, j \in 1..Len(listings) :
            listings[i].external_id = listings[j].external_id => i = j
    /\ Scanned =>
        /\ \A k \in 1..Len(result.trace) :
            LET step == result.trace[k]
                before == RowsOf(ListingsBefore, step.listing_data.external_id)
                after == RowsOf(listings, step.listing_data.external_id)
            IN  /\ Cardinality(after) = 1
                /\ \A i \in before :
                        i \in after /\ IsRefreshOf(listings[i], ListingsBefore[i], step)
                /\ before = {} => \A i \in after : IsInsertOf(listings[i], step)
        /\ \A i \in 1..Len(ListingsBefore) :
                ListingsBefore[i].external_id \notin ScannedIds =>
                    listings[i] = ListingsBefore[i]
        /\ Len(listings) =
                Len(ListingsBefore)
                + Cardinality({e \in ScannedIds : RowsOf(ListingsBefore, e) = {}})

\* a scan that refreshes the stored listing B, found with another title and another
\* price than stored, and inserts the new listing A
C26_Witness ==
    /\ Scanned
    /\ Len(ListingsBefore) = 1
    /\ Len(listings) = 2
    /\ ListingsBefore[1].external_id = "B"
    /\ \E k \in 1..Len(ScanListings) :
            /\ ScanListings[k].external_id = "B"
            /\ ScanListings[k].title # ListingsBefore[1].title
            /\ ScanListings[k].price # ListingsBefore[1].price
            /\ ScanListings[k].metal_type # ListingsBefore[1].metal_type
    /\ listings[2].external_id = "A"

-----------------------------------------------------------------------------
(* One scan in which the database may fail: store_price may not commit, and the
   processing of a listing may raise at its query or at its commit. eBay answers with
   a document, with a document that is not JSON, with an item that has no id, with a
   404 or not at all *)

FailingItems ==
    {RawItem(Some(i), Some(OunceTitle), Some(p), Some("url")) :
        i \in ItemIds, p \in {1700, 2000}}
    \cup {RawItem(None, Some(OunceTitle), Some(1700), Some("url"))}

Timeouts == [k \in 1..API_RETRY_ATTEMPTS |-> [kind |-> "timeout", status_code |-> 0]]

FailingFetches ==
    {[responses |-> NotFound404, body |-> None],
     [responses |-> Timeouts, body |-> None],
     [responses |-> Ok200, body |-> None]}
    \cup {[responses |-> Ok200, body |-> Some(items)] :
            items \in UNION {[1..k -> FailingItems] : k \in 0..MaxScanItems}}

Failures == {"none", "query", "commit"}

NextScanFailing ==
    /\ result = NoResult
    /\ \E https \in ScanHttps, store_ok \in [MetalTypes -> BOOLEAN], pick \in Picks,
       fetches \in [1..Len(SearchTerms) -> FailingFetches],
       failures \in [1..(Len(SearchTerms) * MaxScanItems) -> Failures] :
            PerformScan(ScanInput(https, store_ok, pick, SearchTerms, fetches, failures))

SpecScanFailing == InitScan /\ [][NextScanFailing]_vars

\* the listings whose processing raised
FailedSteps == {k \in 1..Len(result.trace) : ~result.trace[k].committed}

\* the errors of the outcome that the listing loop appended
ListingErrors ==
    SelectSeq(ScanOutcome.errors, LAMBDA e : e = "Listing processing error")

(* C27: a listing whose processing fails adds one entry to the outcome's errors and
   leaves the rows of its external_id as they were before the scan; every listing that
   was committed, before or after a failed one, has its row refreshed or inserted; and
   every deduplicated listing of the batch is processed *)
C27_FailureIsolated ==
    Scanned =>
        /\ Len(result.trace) = ScanOutcome.listings_found
        /\ ScanListings = Dedup(ListingsOf(result.terms))
        /\ Len(ListingErrors) = Cardinality(FailedSteps)
        /\ \A k \in 1..Len(result.trace) :
            LET step == result.trace[k]
                before == RowsOf(ListingsBefore, step.listing_data.external_id)
                after == RowsOf(listings, step.listing_data.external_id)
            IN  IF step.committed
                THEN /\ Cardinality(after) = 1
                     /\ \A i \in before :
                            i \in after /\ IsRefreshOf(listings[i], ListingsBefore[i], step)
                     /\ before = {} => \A i \in after : IsInsertOf(listings[i], step)
                ELSE /\ Cardinality(after) = Cardinality(before)
                     /\ \A i \in before : listings[i] = ListingsBefore[i]

\* the first of two listings fails at its commit and leaves no row; the second one is
\* processed after it and inserted
C27_Witness ==
    /\ Scanned
    /\ Len(result.trace) = 2
    /\ ~result.trace[1].committed
    /\ result.args[1].failures[1] = "commit"
    /\ RowsOf(listings, ScanListings[1].external_id) = {}
    /\ result.trace[2].committed
    /\ RowsOf(listings, ScanListings[2].external_id) # {}
    /\ Len(ScanOutcome.errors) = 1

\* the listings the scan counted as deals: a spread above 0 was computed for them, which
\* a failure at the listing's query prevents
CountedDeals == {k \in ScanDeals : result.args[1].failures[k] # "query"}

\* the scan has something to report as an error: a spot price is missing, or the
\* processing of a listing failed
ScanFailed ==
    \/ \E m \in MetalTypes : ~Truthy(ScanSpotPrices[m])
    \/ FailedSteps # {}

(* C28: in the outcome of a scan success is false exactly when errors is not empty, which
   is exactly when a spot price is missing or a listing failed; and listings_found and
   deals_found count the deduplicated listings and the deals whether success is true or
   false *)
C28_SuccessIffNoErrors ==
    Scanned =>
        /\ ScanOutcome.success = (Len(ScanOutcome.errors) = 0)
        /\ (Len(ScanOutcome.errors) # 0) = ScanFailed
        /\ ScanOutcome.listings_found = Len(Dedup(ListingsOf(result.terms)))
        /\ ScanOutcome.deals_found = Cardinality(CountedDeals)

\* a scan without the silver price that finds two listings, one of them a deal, and
\* reports them with success false
C28_Witness ==
    /\ Scanned
    /\ ~ScanOutcome.success
    /\ ScanOutcome.errors = <<"Failed to fetch spot prices">>
    /\ ScanOutcome.listings_found = 2
    /\ ScanOutcome.deals_found = 1

\* the table spot_prices before the scan, and the rows of a metal in it
PricesBefore == result.args[2].spot_prices

PriceRowsBefore(m) == {i \in 1..Len(PricesBefore) : PricesBefore[i].metal_type = m}

\* the scan stored a freshly fetched price of the metal
FreshlyObtained(m) ==
    \E i \in (Len(PricesBefore) + 1)..Len(spot_prices) : spot_prices[i].metal_type = m

\* the calls of the metals-api quota period that were granted before the scan
MetalsUsedBefore ==
    LET tracker == result.args[2].rate_limit_tracker[
                        FindTracker(result.args[2].rate_limit_tracker, "metals-api")]
    IN  tracker.monthly_calls_used

\* the metals-api quota is exhausted when the scan asks for the price of the metal: gold
\* is asked for first and, when its call is granted, takes one call of the quota
QuotaExhaustedFor(m) ==
    IF m = "gold" THEN MetalsUsedBefore >= METALS_API_MONTHLY_LIMIT
    ELSE MetalsUsedBefore + 1 >= METALS_API_MONTHLY_LIMIT

\* no fresh price of the metal can be obtained: the quota is exhausted or the fetch fails
CannotObtain(m) == QuotaExhaustedFor(m) \/ PricePerOz(result.args[1].https[m]) = None

\* the price_per_oz of the latest row the metal had before the scan
StalePrices(m) ==
    {PricesBefore[i].price_per_oz : i \in LatestPrices(PricesBefore, m)}

(* C29: in a scan whose cached prices are stale or absent, a metal whose fresh price
   cannot be obtained (quota exhausted or fetch failed) gets the stale cached price when
   the cache holds one; otherwise its price is unavailable, all deduplicated listings
   are still processed and upserted, no spread is computed for the listings of that
   metal, and the spread is computed for the listings of the other metal that have a
   weight when that metal's price is available *)
C29_StaleOrUnavailable ==
    Scanned =>
        \A m \in MetalTypes :
            /\ CannotObtain(m) = ~FreshlyObtained(m)
            /\ CannotObtain(m) /\ PriceRowsBefore(m) # {} =>
                    /\ ScanSpotPrices[m] # None
                    /\ Val(ScanSpotPrices[m]) \in StalePrices(m)
            /\ CannotObtain(m) /\ PriceRowsBefore(m) = {} =>
                    /\ ScanSpotPrices[m] = None
                    /\ ScanListings = Dedup(ListingsOf(result.terms))
                    /\ \A k \in 1..Len(result.trace) :
                        LET step == result.trace[k]
                            rows == RowsOf(listings, step.listing_data.external_id)
                        IN  /\ step.committed
                            /\ Cardinality(rows) = 1
                            /\ \A i \in rows :
                                /\ listings[i].price = step.listing_data.price
                                /\ listings[i].fetched_at = ScanOutcome.completed_at
                            /\ step.listing_data.metal_type = m =>
                                /\ ~step.computed
                                /\ ~step.found =>
                                    \A i \in rows : listings[i].spread_percentage = None
                            /\ /\ step.listing_data.metal_type # m
                               /\ Truthy(step.listing_data.weight_oz)
                               /\ ScanSpotPrices[step.listing_data.metal_type] # None
                               => /\ step.computed
                                  /\ step.spread # None
                                  /\ \A i \in rows :
                                        listings[i].spread_percentage = step.spread

\* the quota is exhausted, the cache holds a stale gold price and no silver price: the
\* gold listing gets its spread from the stale price, and the silver listing is stored
\* without a spread
C29_Witness ==
    /\ Scanned
    /\ \A m \in MetalTypes : QuotaExhaustedFor(m)
    /\ PriceRowsBefore("gold") # {}
    /\ PriceRowsBefore("silver") = {}
    /\ ScanSpotPrices["gold"] = Some(2000)
    /\ ScanSpotPrices["silver"] = None
    /\ Len(result.trace) = 2
    /\ result.trace[1].listing_data.metal_type = "gold"
    /\ result.trace[1].spread = Some(1500)
    /\ result.trace[2].listing_data.metal_type = "silver"
    /\ Truthy(result.trace[2].listing_data.weight_oz)
    /\ ~result.trace[2].found
    /\ listings[Len(listings)].spread_percentage = None
    /\ listings[Len(listings)].external_id = result.trace[2].listing_data.external_id

\* what a returned outcome holds
IsScanOutcome(scan) ==
    /\ scan.success \in BOOLEAN
    /\ scan.listings_found \in Nat
    /\ scan.deals_found \in Nat
    /\ \A k \in 1..Len(scan.errors) :
            scan.errors[k] \in {"Failed to fetch spot prices", "Listing processing error",
                                "Rate limit exceeded", "API connection failed",
                                "Unexpected error"}

(* C30: whatever the quota, the price API, eBay and the database do, perform_scan
   returns its outcome and lets no exception out, and completed_at is not earlier than
   started_at *)
C30_AlwaysReturns ==
    result.op = "perform_scan" =>
        /\ result.outcome = "returned"
        /\ result.value # None
        /\ IsScanOutcome(Val(result.value))
        /\ DtLE(Val(result.value).started_at, Val(result.value).completed_at)

\* a scan with the metals-api quota exhausted, no answer from eBay for the first term
\* after all retries, and a failing commit for the listing of the second term: the
\* outcome is returned with both errors, later than it started
C30_Witness ==
    /\ Scanned
    /\ \A m \in MetalTypes : QuotaExhaustedFor(m)
    /\ result.terms[1].failed
    /\ result.args[1].fetches[1].responses = Timeouts
    /\ Len(result.trace) = 1
    /\ result.args[1].failures[1] = "commit"
    /\ ScanOutcome.errors = <<"Failed to fetch spot prices", "Listing processing error">>
    /\ DtLT(ScanOutcome.started_at, ScanOutcome.completed_at)

-----------------------------------------------------------------------------
(* One scan of two search terms at 12:00 UTC, after the eBay and the metals-api quota
   have been used 0 to their limit times an hour before, with a price cache that is
   empty, fresh for both metals, or fresh for gold and a day old for silver. Requests
   succeed, succeed after a 500, time out, or are answered with a 404 *)

\* the rate limiter after `used` granted calls of api_name
RECURSIVE UsedTimes(_, _, _)
UsedTimes(api_name, used, w) ==
    IF used = 0 THEN w
    ELSE CHOOSE done \in
            {UsedTimes(api_name, used - 1, next) :
                next \in {CheckAndIncrementIn(api_name, w).world}} : TRUE

FreshAt == SubTicks(RequestStartClock, 30 * TicksPerMinute)

QuotaCaches ==
    {<<>>,
     <<SpotPrice("gold", 2000, FreshAt), SpotPrice("silver", 30, FreshAt)>>,
     <<SpotPrice("gold", 2000, FreshAt), SpotPrice("silver", 30, ScanEarlierClock)>>}

QuotaFetches ==
    [responses : ScrapeResponses,
     body : {Some(<<>>),
             Some(<<RawItem(Some("A"), Some(OunceTitle), Some(1700), Some("url"))>>)}]

InitQuota ==
    \E e \in 0..EBAY_DAILY_LIMIT, m \in 0..METALS_API_MONTHLY_LIMIT,
       cache \in QuotaCaches :
        \E w \in {UsedTimes("metals-api", m,
                    UsedTimes("ebay", e, [NewWorld EXCEPT !.now = EarlierClock]))} :
            /\ now = RequestStartClock
            /\ tables_created = TRUE
            /\ rate_limit_tracker = w.rate_limit_tracker
            /\ last_call_time = w.last_call_time
            /\ spot_prices = cache
            /\ api_call_logs = <<>>
            /\ listings = <<>>
            /\ callers = NoCallers
            /\ period = w.period
            /\ granted_at = w.granted_at
            /\ result = NoResult

\* what metals-api does for gold: a timeout, a 500, a 404, a document without success,
\* without the rate, with the rate 0, a rate below 0 or an infinite rate, or the rate
\* of 2000 dollars an ounce; for silver: a timeout or the rate of 30 dollars an ounce
GoldAnswers ==
    {TimedOut, Rated(GoldRate), Rated(0), Rated(0 - GoldRate), Rated(Infinity),
     PriceAnswer([kind |-> "response", status_code |-> 200], TRUE, None),
     PriceAnswer([kind |-> "response", status_code |-> 200], FALSE, Some(GoldRate)),
     PriceAnswer([kind |-> "response", status_code |-> 500], FALSE, None),
     PriceAnswer([kind |-> "response", status_code |-> 404], FALSE, None)}

QuotaHttps ==
    {https \in [MetalTypes -> GoldAnswers \cup {Rated(SilverRate)}] :
        /\ https["gold"] \in GoldAnswers
        /\ https["silver"] \in {TimedOut, Rated(SilverRate)}}

NextQuota ==
    /\ result = NoResult
    /\ \E https \in QuotaHttps, fetches \in [1..Len(SearchTerms) -> QuotaFetches] :
            PerformScan(ScanInput(https, AllStored, "lowest id", SearchTerms, fetches,
                                  NoFailures))

SpecQuota == InitQuota /\ [][NextQuota]_vars

\* the calls the scan made, in their order
ScanCalls == result.calls

\* the fetches of the scan: the positions in ScanCalls where an iteration of scrape's
\* loop or a get_or_fetch_price begins
FetchStarts ==
    {i \in 1..Len(ScanCalls) : ScanCalls[i].call \in {"search_term", "get_or_fetch_price"}}

\* the calls made for the fetch that begins at i: those up to the next fetch
CallsOf(i) ==
    {j \in (i + 1)..Len(ScanCalls) : \A k \in (i + 1)..j : k \notin FetchStarts}

ChecksOf(i) == {j \in CallsOf(i) : ScanCalls[j].call = "check_and_increment"}

HttpOf(i) == {j \in CallsOf(i) : ScanCalls[j].call = "http"}

\* the fetches in their order: "ebay" for a search term, the metal for a price
FetchesMade ==
    LET F[i \in 0..Len(ScanCalls)] ==
            IF i = 0 THEN <<>>
            ELSE IF i \in FetchStarts THEN Append(F[i - 1], ScanCalls[i].of)
            ELSE F[i - 1]
    IN  F[Len(ScanCalls)]

(* C31: when check_and_increment rejects the call that guards a fetch of a scan (a price
   of a metal or a search term), no HTTP request is made for that fetch and
   check_and_increment is not called again for it; and no fetch is begun a second
   time: the scan asks for gold, then for silver, then searches each term once *)
C31_RejectionNotRetried ==
    result.op = "perform_scan" =>
        /\ FetchesMade = <<"gold", "silver">>
                            \o [k \in 1..Len(result.args[1].search_terms) |-> "ebay"]
        /\ \A i \in FetchStarts : \A j \in ChecksOf(i) :
                ~ScanCalls[j].allowed =>
                    /\ HttpOf(i) = {}
                    /\ ChecksOf(i) = {j}
                    /\ \A k \in CallsOf(i) : k <= j

\* the quota check of the silver price and that of the second search term were rejected,
\* after the gold price and the first term were fetched with HTTP requests
C31_Witness ==
    /\ result.op = "perform_scan"
    /\ \E g, t, u, v \in FetchStarts :
        /\ ScanCalls[g].of = "gold" /\ HttpOf(g) # {}
        /\ ScanCalls[t].of = "silver"
        /\ \E j \in ChecksOf(t) : ~ScanCalls[j].allowed
        /\ ScanCalls[u].of = "ebay" /\ Cardinality(HttpOf(u)) = 2
        /\ ScanCalls[v].of = "ebay" /\ u < v
        /\ \E j \in ChecksOf(v) : ~ScanCalls[j].allowed

\* the HTTP calls the scan made to api_name
HttpCallsTo(api_name) ==
    {j \in 1..Len(ScanCalls) : ScanCalls[j].call = "http" /\ ScanCalls[j].of = api_name}

\* the rows of api_call_logs written for api_name
AuditsOf(api_name) == {i \in 1..Len(api_call_logs) : api_call_logs[i].api_name = api_name}

\* the fetches of the scan that asked metals-api for a price
PriceFetches ==
    {i \in FetchStarts : ScanCalls[i].of \in MetalTypes /\ HttpOf(i) # {}}

(* C32: a price fetch goes through make_request: when the request of a metal's price
   fails for a transient cause (timeout, connection failure, 5xx) it is attempted
   API_RETRY_ATTEMPTS times before get_or_fetch_price sees the failure, and every HTTP
   call to metals-api has its row in api_call_logs *)
C32_PriceFetchRetriedAndAudited ==
    result.op = "perform_scan" =>
        /\ \A i \in PriceFetches :
                IsTransient(result.args[1].https[ScanCalls[i].of].r) =>
                    Cardinality(HttpOf(i)) = API_RETRY_ATTEMPTS
        /\ Cardinality(AuditsOf("metals-api")) = Cardinality(HttpCallsTo("metals-api"))

(* C33: every row of spot_prices has price_per_oz > 0, whatever metals-api answers to
   the scans' price fetches *)
C33_PricesPositive ==
    \A i \in 1..Len(spot_prices) : spot_prices[i].price_per_oz > 0

-----------------------------------------------------------------------------
(* The tracker table under init_db, check_and_increment and get_status (Spec) *)

\* the providers init_db creates a tracker for
KnownProviders == {"ebay", "metals-api"}

\* the rows of the table for api_name
TrackersOf(table, api_name) == {i \in 1..Len(table) : table[i].api_name = api_name}

(* C34: once init_db has run there is exactly one tracker per known provider and no
   other row, in every state reached by init_db, check_and_increment and get_status
   in any order; no step removes or adds a row of a provider that has one; and a run of
   init_db that finds the trackers leaves the table as it is, calls_used and reset_at
   included *)
C34_OneTrackerPerProvider ==
    [][/\ tables_created' =>
            /\ \A a \in KnownProviders :
                    Cardinality(TrackersOf(rate_limit_tracker', a)) = 1
            /\ Len(rate_limit_tracker') = Cardinality(KnownProviders)
       /\ \A a \in ApiNames :
            TrackersOf(rate_limit_tracker, a) # {} =>
                TrackersOf(rate_limit_tracker', a) = TrackersOf(rate_limit_tracker, a)
       /\ (tables_created /\ result'.op = "init_db") =>
            rate_limit_tracker' = rate_limit_tracker]_vars

\* init_db has run again after calls were counted and after a rollover
C34_Witness ==
    /\ result.op = "init_db"
    /\ \E i \in 1..Len(rate_limit_tracker) :
            /\ rate_limit_tracker[i].api_name = "ebay"
            /\ rate_limit_tracker[i].daily_calls_used > 0
            /\ DtLT(StartClock, rate_limit_tracker[i].reset_at)
    /\ \E i \in 1..Len(rate_limit_tracker) :
            /\ rate_limit_tracker[i].api_name = "metals-api"
            /\ rate_limit_tracker[i].monthly_calls_used > 0

-----------------------------------------------------------------------------
(* Two threads inside RateLimiter.check_and_increment at once (a scheduled scan and a
   scan started by a request), each with its own database session. The session reads
   the tracker row at the query, the thread changes the session's copy of the row, and
   db.commit() writes the columns that were changed; last_call_time is shared *)

Callers == {1, 2}

\* a thread that has not called check_and_increment yet
Idle ==
    [pc |-> "idle", api_name |-> "", loaded |-> None, tracker |-> None, at |-> None,
     wake |-> None, outcome |-> ""]

\* "tracker = db.query(RateLimitTracker).filter(...).first()" and
\* "now = datetime.utcnow()": thread c reads the row of api_name into its session
RaceQuery(c, api_name) ==
    /\ callers[c].pc = "idle"
    /\ FindTracker(rate_limit_tracker, api_name) # 0
    /\ callers' = [callers EXCEPT ![c] =
            [@ EXCEPT !.pc = "queried", !.api_name = api_name,
                      !.loaded = Some(rate_limit_tracker[FindTracker(rate_limit_tracker,
                                                                     api_name)]),
                      !.at = Some(now)]]
    /\ UNCHANGED <<now, tables_created, rate_limit_tracker, last_call_time, spot_prices,
                   api_call_logs, listings, period, granted_at, result>>

\* the rollover, the limit check and the increment on the session's copy, and the
\* burst protection up to time.sleep: thread c raises APIRateLimitError, or counts the
\* call and sleeps until `wake`
RaceCheck(c) ==
    /\ callers[c].pc = "queried"
    /\ LET tracker == RollOverIfDue(Val(callers[c].loaded), Val(callers[c].at))
           sleep_time == BurstSleep(last_call_time[callers[c].api_name], TimeTime(now))
       IN  callers' = [callers EXCEPT ![c] =
                IF LimitReached(tracker)
                THEN [@ EXCEPT !.pc = "done", !.tracker = Some(tracker),
                               !.outcome = "APIRateLimitError"]
                ELSE [@ EXCEPT !.pc = "counted", !.tracker = Some(CountCall(tracker)),
                               !.wake = Some(AddTicks(now, sleep_time))]]
    /\ UNCHANGED <<now, tables_created, rate_limit_tracker, last_call_time, spot_prices,
                   api_call_logs, listings, period, granted_at, result>>

\* mutant: the commit adds the session's increment to the stored counter
Committed_Increments(row, loaded, tracker) ==
    [row EXCEPT !.daily_calls_used = @ + (tracker.daily_calls_used - loaded.daily_calls_used),
                !.monthly_calls_used =
                    @ + (tracker.monthly_calls_used - loaded.monthly_calls_used),
                !.reset_at = tracker.reset_at,
                !.last_call_at = tracker.last_call_at]

\* db.commit(): UPDATE sets the columns whose value the session changed to the
\* session's values, whatever the stored row holds by then
Committed(row, loaded, tracker) ==
    [row EXCEPT !.daily_calls_used = IF tracker.daily_calls_used # loaded.daily_calls_used
                                     THEN tracker.daily_calls_used ELSE @,
                !.monthly_calls_used =
                    IF tracker.monthly_calls_used # loaded.monthly_calls_used
                    THEN tracker.monthly_calls_used ELSE @,
                !.reset_at = IF tracker.reset_at # loaded.reset_at
                             THEN tracker.reset_at ELSE @,
                !.last_call_at = IF tracker.last_call_at # loaded.last_call_at
                                 THEN tracker.last_call_at ELSE @]

\* thread c wakes, stamps the call and commits: "tracker.last_call_at = now",
\* "self.last_call_time[api_name] = time.time()", "db.commit()", "return True"
RaceCommit(c) ==
    /\ callers[c].pc = "counted"
    /\ LET api_name == callers[c].api_name
           i == FindTracker(rate_limit_tracker, api_name)
           clock == IF DtLT(now, Val(callers[c].wake)) THEN Val(callers[c].wake) ELSE now
           tracker == [Val(callers[c].tracker) EXCEPT !.last_call_at = callers[c].at]
           row == Committed(rate_limit_tracker[i], Val(callers[c].loaded), tracker)
       IN  /\ now' = clock
           /\ rate_limit_tracker' = [rate_limit_tracker EXCEPT ![i] = row]
           /\ last_call_time' = [last_call_time EXCEPT ![api_name] = Some(TimeTime(clock))]
           /\ period' = [period EXCEPT ![api_name] =
                            NextPeriod(@, rate_limit_tracker[i], row, "granted")]
           /\ granted_at' = [granted_at EXCEPT ![api_name] = Some(TimeTime(clock))]
           /\ callers' = [callers EXCEPT ![c] =
                            [@ EXCEPT !.pc = "done", !.tracker = Some(tracker),
                                      !.outcome = "True"]]
    /\ UNCHANGED <<tables_created, spot_prices, api_call_logs, listings, result>>

\* each thread calls check_and_increment once, at 12:00 UTC, after the quotas have been
\* used 0 to their limit times an hour before
InitRace ==
    \E e \in 0..EBAY_DAILY_LIMIT, m \in 0..METALS_API_MONTHLY_LIMIT :
        \E w \in {UsedTimes("metals-api", m,
                    UsedTimes("ebay", e, [NewWorld EXCEPT !.now = EarlierClock]))} :
            /\ now = RequestStartClock
            /\ tables_created = TRUE
            /\ rate_limit_tracker = w.rate_limit_tracker
            /\ last_call_time = w.last_call_time
            /\ spot_prices = <<>>
            /\ api_call_logs = <<>>
            /\ listings = <<>>
            /\ period = w.period
            /\ granted_at = w.granted_at
            /\ result = NoResult
            /\ callers = [c \in Callers |-> Idle]

NextRace ==
    \E c \in Callers :
        \/ \E api_name \in KnownProviders : RaceQuery(c, api_name)
        \/ RaceCheck(c)
        \/ RaceCommit(c)

SpecRace == InitRace /\ [][NextRace]_vars

\* both threads have returned from or left check_and_increment(a)
BothDone(a) == \A c \in Callers : callers[c].pc = "done" /\ callers[c].api_name = a

(* C35: check_and_increment is not safe under interleaving: when two threads call it
   for the same provider and both read the tracker with calls_used = limit - 1, both are
   allowed, the stored calls_used ends at limit, one above what was read, and limit + 1
   calls have been granted in the period *)
C35_RaceAllowsBoth ==
    \A a \in KnownProviders :
        (/\ BothDone(a)
         /\ \A c \in Callers :
                UsedOf(Val(callers[c].loaded)) = LimitOf(Val(callers[c].loaded)) - 1)
        => /\ \A c \in Callers : callers[c].outcome = "True"
           /\ UsedOf(TrackerOf(a)) = LimitOf(TrackerOf(a))
           /\ period[a].granted = LimitOf(TrackerOf(a)) + 1

\* the interleaving exists: both threads read calls_used = limit - 1 and were allowed
C35_Witness ==
    \E a \in KnownProviders :
        /\ BothDone(a)
        /\ \A c \in Callers :
                /\ UsedOf(Val(callers[c].loaded)) = LimitOf(Val(callers[c].loaded)) - 1
                /\ callers[c].outcome = "True"
        /\ UsedOf(TrackerOf(a)) = LimitOf(TrackerOf(a))
        /\ period[a].granted > LimitOf(TrackerOf(a))

\* the tracker rows before the scan
TrackersBefore == result.args[2].rate_limit_tracker

\* the quota checks of the scan for api_name that were allowed
AllowedChecks(api_name) ==
    {j \in 1..Len(ScanCalls) :
        /\ ScanCalls[j].call = "check_and_increment"
        /\ ScanCalls[j].of = api_name
        /\ ScanCalls[j].allowed}

\* the provider whose quota guards the fetch that begins at i
ProviderOf(i) == IF ScanCalls[i].of \in MetalTypes THEN "metals-api" ELSE "ebay"

\* the price of metal m was served from a fresh cache
ServedFresh(m) ==
    \E k \in 1..Len(PricesBefore) :
        /\ PricesBefore[k].metal_type = m
        /\ ~CachedPrice(PricesBefore[k], result.args[2].now).is_stale

(* C36: in a scan every fetch (a search term, a price) makes at most one quota check,
   before its HTTP calls, and makes HTTP calls only when the check allowed it; a price
   served from a fresh cache makes none; and calls_used of a provider ends at its value
   at the start of the scan (0 after a rollover) plus the number of its allowed checks,
   however many HTTP attempts the fetches made and whether they succeeded: at most one
   per search term and one per metal *)
C36_ChargedOncePerFetch ==
    result.op = "perform_scan" =>
        /\ \A i \in FetchStarts :
            /\ Cardinality(ChecksOf(i)) <= 1
            /\ \A j \in ChecksOf(i) :
                /\ ScanCalls[j].of = ProviderOf(i)
                /\ \A h \in HttpOf(i) : j < h
            /\ HttpOf(i) # {} => \E j \in ChecksOf(i) : ScanCalls[j].allowed
            /\ (ScanCalls[i].of \in MetalTypes /\ ServedFresh(ScanCalls[i].of))
                    => CallsOf(i) = {}
        /\ \A a \in KnownProviders :
            LET before == TrackersBefore[FindTracker(TrackersBefore, a)]
                start == IF AllowedChecks(a) = {} THEN before
                         ELSE RollOverIfDue(before, result.args[2].now)
            IN  UsedOf(TrackerOf(a)) = UsedOf(start) + Cardinality(AllowedChecks(a))
        /\ Cardinality(AllowedChecks("ebay")) <= Len(result.args[1].search_terms)
        /\ Cardinality(AllowedChecks("metals-api")) <= Cardinality(MetalTypes)

\* a scan that charged one unit for a search term whose request made API_RETRY_ATTEMPTS
\* failed attempts, one for a term that succeeded at the second attempt, one for a
\* silver price whose request timed out, and nothing for the gold price served from the
\* cache
C36_Witness ==
    /\ result.op = "perform_scan"
    /\ Cardinality(AllowedChecks("ebay")) = 2
    /\ Cardinality(AllowedChecks("metals-api")) = 1
    /\ UsedOf(TrackerOf("ebay")) = 2
    /\ \E i \in FetchStarts :
        ScanCalls[i].of = "ebay" /\ Cardinality(HttpOf(i)) = API_RETRY_ATTEMPTS
    /\ \E i \in FetchStarts : ScanCalls[i].of = "ebay" /\ Cardinality(HttpOf(i)) = 2
    /\ \E i \in FetchStarts : ScanCalls[i].of = "silver" /\ HttpOf(i) # {}
    /\ result.args[1].https["silver"] = TimedOut
    /\ \E i \in FetchStarts : ScanCalls[i].of = "gold" /\ CallsOf(i) = {}
    /\ Val(result.prices)["gold"] # None

-----------------------------------------------------------------------------
(* The price cache when store_price may fail: SpecCache with a commit that succeeds or
   raises *)

NextCacheFailing ==
    \/ TickCache
    \/ \E m \in MetalTypes : GetCachedPrice(m)
    \/ GetCachedPricesOnly
    \/ \E m \in MetalTypes, fetched \in {None} \cup {Some(p) : p \in Prices},
          store_ok \in BOOLEAN :
        /\ GetOrFetchPrice(m, fetched, store_ok)
        /\ Len(spot_prices') <= MaxRows

SpecCacheFailing == InitCache /\ [][NextCacheFailing]_vars

(* C37: when fetch_func returns a price during get_or_fetch_price and store_price
   fails, the price table is unchanged and the fetched price is not returned: if the
   metal has a cached price the call returns it tagged from_cache, fallback and stale,
   and if it has none the failure reaches the caller; and whenever the call returns a
   price tagged not from cache, the row holding that price was added to the table *)
C37_UnstoredPriceDiscarded ==
    [][\A m \in MetalTypes :
        /\ \A p \in Prices :
            (/\ result'.fetch_calls = 1
             /\ result'.fetched = Some(p)
             /\ GetOrFetchPrice(m, Some(p), FALSE)) =>
                /\ spot_prices' = spot_prices
                /\ NewestRows(m) # {} =>
                        /\ \E i \in NewestRows(m) : ReturnsRow(result', i)
                        /\ Val(result'.value).from_cache
                        /\ Val(result'.value).fallback
                        /\ Val(result'.value).is_stale
                /\ NewestRows(m) = {} => result'.outcome = "raised"
        /\ \A fetched \in {None} \cup {Some(p) : p \in Prices}, store_ok \in BOOLEAN :
            (/\ result'.op = "get_or_fetch_price"
             /\ result'.outcome = "returned"
             /\ ~Val(result'.value).from_cache
             /\ GetOrFetchPrice(m, fetched, store_ok)) =>
                spot_prices' = Append(spot_prices,
                                      SpotPrice(m, Val(result'.value).price_per_oz, now))
      ]_vars

\* a price was fetched, store_price failed, and the older price of the metal was
\* returned as the fallback; the fetched price is not in the table
C37_Witness ==
    /\ result.op = "get_or_fetch_price"
    /\ result.fetch_calls = 1
    /\ result.fetched # None
    /\ result.outcome = "returned"
    /\ Val(result.value).fallback
    /\ Val(result.value).price_per_oz # Val(result.fetched)
    /\ \A i \in 1..Len(spot_prices) : spot_prices[i].price_per_oz # Val(result.fetched)

-----------------------------------------------------------------------------
(* A refreshed listing whose spread the scan could not compute *)

\* the steps of the scan that refreshed a stored row without computing a spread
RefreshedUncomputed ==
    {k \in 1..Len(result.trace) : result.trace[k].found /\ ~result.trace[k].computed}

(* C38: after a scan, a stored listing the scan found again but whose spread it did not
   compute, because the listing has no weight or the price of its metal is missing,
   has the price of the scan's listing and the spread_percentage it had before the
   scan; a spread the scan did not compute for a refreshed row is never cleared *)
C38_SpreadKeptOnRefresh ==
    Scanned =>
        \A k \in RefreshedUncomputed :
            LET step == result.trace[k]
            IN  /\ ~Truthy(step.listing_data.weight_oz)
                   \/ ~Truthy(ScanSpotPrices[step.listing_data.metal_type])
                /\ \A i \in RowsOf(ListingsBefore, step.listing_data.external_id) :
                    /\ listings[i].external_id = step.listing_data.external_id
                    /\ listings[i].price = step.listing_data.price
                    /\ listings[i].spread_percentage = ListingsBefore[i].spread_percentage

\* a stored listing with a spread is found again at another price without a weight in
\* its title: its row has the new price and the old spread, which is not the spread of
\* the new price
C38_Witness ==
    /\ Scanned
    /\ \E k \in RefreshedUncomputed :
        \E i \in RowsOf(ListingsBefore, result.trace[k].listing_data.external_id) :
            /\ ListingsBefore[i].spread_percentage # None
            /\ listings[i].price # ListingsBefore[i].price
            /\ listings[i].spread_percentage = ListingsBefore[i].spread_percentage
            /\ ScanSpotPrices[listings[i].metal_type] # None
            /\ listings[i].spread_percentage # ListingSpread(listings[i], ScanSpotPrices)

-----------------------------------------------------------------------------
(* One request of the eBay scraper in which each write to api_call_logs may fail *)

NextRequestUnlogged ==
    /\ result = NoResult
    /\ \E responses \in [1..API_RETRY_ATTEMPTS -> HttpOutcomes],
          log_ok \in [1..(API_RETRY_ATTEMPTS + 1) -> BOOLEAN] :
            MakeRequest("ebay", responses, log_ok)

SpecRequestUnlogged == InitRequest /\ [][NextRequestUnlogged]_vars

\* the HTTP calls of a trace, in their order
HttpEvents(trace) == SelectSeq(trace, LAMBDA e : e.ev = "http")

\* what the HTTP calls did according to their events http, followed by the answers
\* pad that were never asked for
Answers(http, pad) ==
    [k \in 1..API_RETRY_ATTEMPTS |->
        IF k <= Len(http) THEN [kind |-> http[k].kind, status_code |-> http[k].status_code]
        ELSE pad[k]]

\* the rows of logs are rows of all, in their order
RECURSIVE IsSubSeq(_, _)
IsSubSeq(logs, all) ==
    IF logs = <<>> THEN TRUE
    ELSE IF all = <<>> THEN FALSE
    ELSE IF Head(logs) = Head(all) THEN IsSubSeq(Tail(logs), Tail(all))
    ELSE IsSubSeq(logs, Tail(all))

(* C39: whichever of its writes to api_call_logs fail, make_request ends as it does when
   all of them succeed on the same answers of the HTTP calls: the same response is
   returned or the same APIConnectionError raised, after the same HTTP calls, the same
   calls of _log_api_call and the same waits; only rows of the table are missing *)
C39_AuditFailureIgnored ==
    [][result'.op = "make_request" =>
        \E http \in {HttpEvents(result'.trace)} :
            \A pad \in [(Len(http) + 1)..API_RETRY_ATTEMPTS -> HttpOutcomes] :
                \E logged \in {Request(result'.api_name, Answers(http, pad), AllLogged,
                                       now, api_call_logs)} :
                    /\ result'.outcome = logged.outcome
                    /\ result'.value = logged.response
                    /\ result'.err = logged.err
                    /\ result'.trace = logged.trace
                    /\ now' = logged.clock
                    /\ IsSubSeq(api_call_logs', logged.logs)
      ]_vars

\* a request whose attempts were all answered with a server error and none of whose
\* writes succeeded: it raised after API_RETRY_ATTEMPTS HTTP calls and the table is
\* empty
C39_Witness ==
    /\ result.op = "make_request"
    /\ api_call_logs = <<>>
    /\ result.outcome = "raised"
    /\ Len(HttpEvents(result.trace)) = API_RETRY_ATTEMPTS
    /\ \A k \in 1..API_RETRY_ATTEMPTS : HttpEvents(result.trace)[k].status_code = 500
    /\ Val(result.err).retries = API_RETRY_ATTEMPTS

-----------------------------------------------------------------------------
(* An api_name without a row in rate_limit_tracker *)

(* C40: for an api_name that has no tracker, check_and_increment returns True without
   writing to rate_limit_tracker, without sleeping and without setting last_call_time
   for it, every time it is called; get_status returns None for it; and the api_name
   never has a tracker, a last call time or a granted call *)
C40_UntrackedFailsOpen ==
    [][\A a \in ApiNames :
        /\ (~Tracked(a) /\ CheckAndIncrement(a)) =>
                /\ result'.op = "check_and_increment"
                /\ result'.outcome = "True"
                /\ result'.slept = 0
                /\ rate_limit_tracker' = rate_limit_tracker
                /\ ~Tracked(a)'
                /\ last_call_time' = last_call_time
                /\ granted_at' = granted_at
                /\ period' = period
                /\ now' = now
        /\ (~Tracked(a) /\ GetStatus(a)) =>
                /\ result'.op = "get_status"
                /\ result'.outcome = "None"
                /\ result'.status = None
                /\ rate_limit_tracker' = rate_limit_tracker
        /\ (a \notin KnownProviders /\ tables_created) =>
                /\ ~Tracked(a)
                /\ last_call_time[a] = None
                /\ granted_at[a] = None
                /\ period[a] = NoPeriod
      ]_vars

\* a call for an api_name without tracker was let through and left no last call time,
\* while the eBay tracker has counted calls up to its limit
C40_Witness ==
    /\ result.op = "check_and_increment"
    /\ result.api_name = "other"
    /\ result.outcome = "True"
    /\ ~result.tracked
    /\ ~Tracked("other")
    /\ last_call_time["other"] = None
    /\ Tracked("ebay")
    /\ UsedOf(TrackerOf("ebay")) = EBAY_DAILY_LIMIT

====
